---- MODULE Spec2Model ----
(***************************************************************************)
(* A model of the setting container engine of Uranium: ContainerStack      *)
(* (layered lookup, mutation, INI serialisation) and DefinitionContainer   *)
(* (JSON definition documents with inheritance).                           *)
(*                                                                         *)
(* Python strings that the code transforms (strip, lower, split) are       *)
(* sequences of one-character strings; strings the code only compares are  *)
(* TLA+ strings.  Python's None is the string "None".                      *)
(***************************************************************************)
EXTENDS Integers, Sequences, FiniteSets, TLC

VARIABLES
    stack_id,       \* ContainerStack._id          per stack object
    stack_name,     \* ContainerStack._name        per stack object
    metadata,       \* ContainerStack._metadata    per stack object, insertion-ordered <<key, value>> pairs
    containers,     \* ContainerStack._containers  per stack object, index 0 of the code is position 1
    next_stack,     \* ContainerStack._next_stack  per stack object
    values,         \* what getValue(key) of each definition/instance container returns
    definition_container, \* a DefinitionContainer: _name, _metadata, _definitions and the relations of its definitions
    emitted,        \* the signals the last call emitted, in order
    type_definitions, \* SettingDefinition.__type_definitions: the converters of each setting type
    provider,       \* a SettingPropertyProvider: its fields
    properties,     \* what getProperty(key, name) of each definition/instance container returns
    subscribed,     \* the stacks whose propertyChanged and containersChanged the provider is connected to
    tool,           \* a CameraTool: its fields
    scene,          \* the scene the camera tool works on: its lock and its active camera
    pending,        \* the call of the camera tool under way and the position it has reached
    last            \* the last call made: operation, arguments, exception raised, value returned

stackVars == <<stack_id, stack_name, metadata, containers, next_stack>>
providerVars == <<provider, properties, subscribed>>
toolVars == <<tool, scene, pending>>

None == "None"

(***************************************************************************)
(* Bounds of the model.                                                    *)
(***************************************************************************)
MaxLen == 2         \* longest container list the mutators build on the stack under test

(***************************************************************************)
(* The objects.  S is the stack under test, T and U are other stacks; d1   *)
(* is a definition container, i1 and i2 are instance containers.           *)
(***************************************************************************)
Stacks == {"S", "T", "U"}
DefinitionContainers == {"d1"}
InstanceContainers == {"i1", "i2"}
Leaves == DefinitionContainers \cup InstanceContainers
Objects == Leaves \cup Stacks

Keys == {"k1"}
\* Python values a container may hold for a key; "0", "False" and "" are falsy.
Falsy == {"0", "False", ""}
Vals == {None, "0", "7"}

RecursionError == "RecursionError"

----------------------------------------------------------------------------
(***************************************************************************)
(* ContainerStack.getValue.  A call that re-enters a stack already on the  *)
(* call path repeats itself without end (the state does not change during  *)
(* the call), which Python ends with RecursionError; the exception         *)
(* propagates through every frame.                                         *)
(***************************************************************************)
RECURSIVE getValue(_, _, _), getValueLoop(_, _, _, _)

\* container.getValue(key) of ContainerStack.getValue's loop, dispatched on the container
ContainerGetValue(c, key, path) ==
    IF c \in Leaves THEN values[c][key] ELSE getValue(c, key, path)

\* mutant of getValueLoop: tests the truth of the value instead of "is not None"
getValueLoopTruthy(self, key, i, path) ==
    LET RECURSIVE loop(_)
        loop(j) ==
            IF j > Len(containers[self])
            THEN IF next_stack[self] # None
                 THEN getValue(next_stack[self], key, path)
                 ELSE None
            ELSE LET value == ContainerGetValue(containers[self][j], key, path)
                 IN  IF value = RecursionError THEN value
                     ELSE IF value \notin (Falsy \cup {None}) THEN value
                     ELSE loop(j + 1)
    IN loop(i)

getValueLoop(self, key, i, path) ==
    IF i > Len(containers[self])
    THEN IF next_stack[self] # None
         THEN getValue(next_stack[self], key, path)
         ELSE None
    ELSE LET value == ContainerGetValue(containers[self][i], key, path)
         IN  IF value = RecursionError THEN value
             ELSE IF value # None THEN value
             ELSE getValueLoop(self, key, i + 1, path)

getValueOfTopOnly(self, key, path) ==
    IF path # {} THEN RecursionError
    ELSE getValueLoop(self, key, 1, path \cup {self})

getValue(self, key, path) ==
    IF self \in path THEN RecursionError
    ELSE getValueLoop(self, key, 1, path \cup {self})

----------------------------------------------------------------------------
(***************************************************************************)
(* Python list indexing: a negative index counts from the end.             *)
(***************************************************************************)
\* position (1-based) that list[index] addresses, 0 when list[index] raises IndexError
ListPos(list, index) ==
    IF index >= 0
    THEN IF index < Len(list) THEN index + 1 ELSE 0
    ELSE IF index + Len(list) >= 0 THEN index + Len(list) + 1 ELSE 0

Insert0(list, x) == <<x>> \o list
SetItem(list, pos, x) == [list EXCEPT ![pos] = x]
DelItem(list, pos) == SubSeq(list, 1, pos - 1) \o SubSeq(list, pos + 1, Len(list))

Call(op, self, arg, index, err, ret) ==
    [op |-> op, self |-> self, arg |-> arg, index |-> index, err |-> err, ret |-> ret]

----------------------------------------------------------------------------
(***************************************************************************)
(* The mutators and queries of ContainerStack.                             *)
(***************************************************************************)
\* mutant of addContainer's list update: appends at the bottom of the stack
addContainerListAppend(list, container) == Append(list, container)

addContainerList(list, container) == Insert0(list, container)

addContainer(self, container) ==
    /\ IF container # self
       THEN /\ containers' = [containers EXCEPT ![self] = addContainerList(@, container)]
            /\ last' = Call("addContainer", self, container, 0, None, None)
       ELSE /\ containers' = containers
            /\ last' = Call("addContainer", self, container, 0, "Exception", None)
    /\ UNCHANGED <<stack_id, stack_name, metadata, next_stack, values, definition_container>>
    /\ emitted' = <<>>
    /\ UNCHANGED <<type_definitions, providerVars, toolVars>>

\* mutant of replaceContainerCheck: the self test is missing
replaceContainerCheckNoSelf(self, index, container) ==
    IF index = -1 THEN "IndexError"
    ELSE IF ListPos(containers[self], index) = 0 THEN "IndexError"
    ELSE None

\* the exception replaceContainer raises, None when it raises none
replaceContainerCheck(self, index, container) ==
    IF index = -1 THEN "IndexError"
    ELSE IF container = self THEN "Exception"
    ELSE IF ListPos(containers[self], index) = 0 THEN "IndexError"
    ELSE None

replaceContainer(self, index, container) ==
    LET err == replaceContainerCheck(self, index, container)
    IN  /\ IF err = None
           THEN containers' = [containers EXCEPT
                    ![self] = SetItem(@, ListPos(@, index), container)]
           ELSE containers' = containers
        /\ last' = Call("replaceContainer", self, container, index, err, None)
        /\ UNCHANGED <<stack_id, stack_name, metadata, next_stack, values, definition_container>>
        /\ emitted' = <<>>
        /\ UNCHANGED <<type_definitions, providerVars, toolVars>>

\* mutant of removeContainerCheck: the -1 sentinel test is missing
removeContainerCheckNoSentinel(self, index) ==
    IF ListPos(containers[self], index) = 0 THEN "IndexError" ELSE None

\* the exception removeContainer raises, None when it raises none
removeContainerCheck(self, index) ==
    IF index = -1 THEN "IndexError"
    ELSE IF ListPos(containers[self], index) = 0 THEN "IndexError"
    ELSE None

removeContainer(self, index) ==
    LET err == removeContainerCheck(self, index)
    IN  /\ IF err = None
           THEN containers' = [containers EXCEPT ![self] = DelItem(@, ListPos(@, index))]
           ELSE containers' = containers
        /\ last' = Call("removeContainer", self, None, index, err, None)
        /\ UNCHANGED <<stack_id, stack_name, metadata, next_stack, values, definition_container>>
        /\ emitted' = <<>>
        /\ UNCHANGED <<type_definitions, providerVars, toolVars>>

getContainer(self, index) ==
    LET pos == ListPos(containers[self], index)
        err == IF index = -1 \/ pos = 0 THEN "IndexError" ELSE None
    IN  /\ last' = Call("getContainer", self, None, index, err,
                        IF err = None THEN containers[self][pos] ELSE None)
        /\ UNCHANGED <<stackVars, values, definition_container>>
        /\ emitted' = <<>>
        /\ UNCHANGED <<type_definitions, providerVars, toolVars>>

getNextStack(self) == next_stack[self]

setNextStackUnlessSelf(self, stack) ==
    /\ next_stack' = [next_stack EXCEPT ![self] = IF stack = self THEN @ ELSE stack]
    /\ last' = Call("setNextStack", self, stack, 0, None, None)
    /\ UNCHANGED <<stack_id, stack_name, metadata, containers, values, definition_container>>
    /\ emitted' = <<>>
    /\ UNCHANGED <<type_definitions, providerVars, toolVars>>

setNextStack(self, stack) ==
    /\ next_stack' = [next_stack EXCEPT ![self] = stack]
    /\ last' = Call("setNextStack", self, stack, 0, None, None)
    /\ UNCHANGED <<stack_id, stack_name, metadata, containers, values, definition_container>>
    /\ emitted' = <<>>
    /\ UNCHANGED <<type_definitions, providerVars, toolVars>>

\* stack.getValue(key) called from outside: an empty call path
getValueCall(self, key) ==
    LET r == getValue(self, key, {})
    IN  /\ last' = Call("getValue", self, key, 0,
                        IF r = RecursionError THEN RecursionError ELSE None,
                        IF r = RecursionError THEN None ELSE r)
        /\ UNCHANGED <<stackVars, values, definition_container>>
        /\ emitted' = <<>>
        /\ UNCHANGED <<type_definitions, providerVars, toolVars>>

----------------------------------------------------------------------------
(***************************************************************************)
(* ContainerStack.__init__ and the ids of the other containers.            *)
(***************************************************************************)
InitialStackId == [s \in Stacks |-> CASE s = "S" -> <<"s">> [] s = "T" -> <<"b">> [] s = "U" -> <<"u">>]

ContainerStackInit(id) ==
    [id |-> id, name |-> id, metadata |-> <<>>, containers |-> <<>>, next_stack |-> None]

NoCall == Call("none", None, None, 0, None, None)

\* JSON values: a tag and the value; a dictionary is its items in insertion order
JDict(items) == [t |-> "dict", v |-> items]
JStr(text) == [t |-> "str", v |-> text]
JInt(numeral) == [t |-> "int", v |-> numeral]
JNone == [t |-> "none", v |-> "None"]

\* CameraTool(): the fields the event handler reads and writes; _start_drag
\* and _start_y are <<>> for None, else the coordinates
CameraToolInit ==
    [rotate |-> FALSE, move |-> FALSE, dragged |-> FALSE,
     shift_is_active |-> None, ctrl_is_active |-> None, space_is_active |-> None,
     start_drag |-> <<>>, start_y |-> <<>>]

\* the scene of the controller: its lock, as the number of acquireLock calls
\* without a releaseLock, and its active camera
SceneInit == [lock |-> 0, camera |-> "enabled"]

\* no call of the camera tool is under way
NoPending ==
    [pc |-> "idle", op |-> None, call |-> None,
     event |-> [type |-> None, buttons |-> {}, key |-> None, x |-> 0, y |-> 0,
                deltaX |-> 0, deltaY |-> 0, vertical |-> 0],
     arg |-> <<>>, dot |-> None]

\* DefinitionContainer(container_id)
DefinitionContainerInit(container_id) ==
    [name |-> JStr(container_id), metadata |-> JDict(<<>>), definitions |-> <<>>,
     relations |-> <<>>]

\* __type_definitions: each type's "from" and "to" converter, None for none
TypeDefinitionsInit ==
    [int |-> [from |-> "str", to |-> "literal_eval"],
     bool |-> [from |-> "str", to |-> "literal_eval"],
     category |-> [from |-> None, to |-> None],
     str |-> [from |-> None, to |-> None],
     enum |-> [from |-> None, to |-> None],
     float |-> [from |-> "str", to |-> "literal_eval_comma"],
     polygon |-> [from |-> None, to |-> None],
     polygons |-> [from |-> None, to |-> None],
     vec3 |-> [from |-> None, to |-> None]]

\* the names of __type_definitions
TypeNames == DOMAIN TypeDefinitionsInit

\* SettingPropertyProvider()
SettingPropertyProviderInit ==
    [stack_id |-> <<>>, stack |-> None, key |-> "", relations |-> {},
     watched_properties |-> <<>>, property_values |-> <<>>, store_index |-> 0,
     value_used |-> None, stack_levels |-> <<>>]

\* what getProperty(key, name) answers, per container: nothing is stored at first
PropertiesInit == [c \in Leaves |-> <<>>]

InitStacks ==
    /\ stack_id = InitialStackId
    /\ stack_name = [s \in Stacks |-> ContainerStackInit(InitialStackId[s]).name]
    /\ metadata = [s \in Stacks |-> ContainerStackInit(InitialStackId[s]).metadata]
    /\ containers = [s \in Stacks |-> ContainerStackInit(InitialStackId[s]).containers]
    /\ next_stack = [s \in Stacks |-> ContainerStackInit(InitialStackId[s]).next_stack]
    /\ definition_container = DefinitionContainerInit("d")
    /\ emitted = <<>>
    /\ type_definitions = TypeDefinitionsInit
    /\ provider = SettingPropertyProviderInit
    /\ properties = PropertiesInit
    /\ subscribed = {}
    /\ tool = CameraToolInit
    /\ scene = SceneInit
    /\ pending = NoPending
    /\ last = NoCall

(***************************************************************************)
(* Layered lookup: both stacks are mutated and queried; the containers     *)
(* d1 and i1 hold any combination of values.                               *)
(***************************************************************************)
LookupObjects == {"d1", "i1", "S", "T"}
\* indices tried: every valid one, -1, and one out of range on either side
Indices == (-(MaxLen + 1)) .. MaxLen

InitLookup ==
    /\ InitStacks
    /\ values \in [Leaves -> [Keys -> Vals]]
    /\ values["i2"] = [k \in Keys |-> None]

NextLookup ==
    \/ \E c \in LookupObjects : Len(containers["S"]) < MaxLen /\ addContainer("S", c)
    \/ \E c \in {"i1", "S", "T"} : containers["T"] = <<>> /\ addContainer("T", c)
    \/ \E c \in LookupObjects, i \in Indices : replaceContainer("S", i, c)
    \/ \E i \in Indices : removeContainer("S", i)
    \/ removeContainer("T", 0)
    \/ \E i \in Indices : getContainer("S", i)
    \/ \E s \in {None, "S", "T"} : setNextStack("S", s)
    \/ \E k \in Keys : getValueCall("S", k)

vars == <<stack_id, stack_name, metadata, containers, next_stack, values,
         definition_container, emitted, type_definitions, provider, properties,
         subscribed, tool, scene, pending, last>>

SpecLookup == InitLookup /\ [][NextLookup]_vars

----------------------------------------------------------------------------
(***************************************************************************)
(* Claims about layered lookup and the mutators, checked under SpecLookup. *)
(***************************************************************************)
\* what the last call produced: the exception it raised, else the value it returned
Outcome == IF last.err # None THEN last.err ELSE last.ret

Min(set) == CHOOSE x \in set : \A y \in set : x <= y

\* what each container of the stack answers when the stack asks it for key
Answer(self, key, i) == ContainerGetValue(containers[self][i], key, {self})
Answering(self, key) == {i \in 1 .. Len(containers[self]) : Answer(self, key, i) # None}

\* C1: getValue(k) is the answer of the lowest-index container whose answer is
\* not absent (0, False and "" are answers); when every container answers
\* absent it is nextStack.getValue(k) if a next stack is set and absent if not.
C1_LayeredLookup ==
    last.op = "getValue" =>
        LET self == last.self
            key == last.arg
        IN  IF Answering(self, key) # {}
            THEN Outcome = Answer(self, key, Min(Answering(self, key)))
            ELSE IF next_stack[self] # None
                 THEN Outcome = getValue(next_stack[self], key, {self})
                 ELSE Outcome = None

\* a falsy value found at index 1 shadows the next stack, index 0 being absent
C1_Witness ==
    /\ last.op = "getValue" /\ last.self = "S" /\ last.ret = "0"
    /\ containers["S"] = <<"i1", "d1">>
    /\ values["i1"][last.arg] = None /\ values["d1"][last.arg] = "0"
    /\ next_stack["S"] = "T" /\ containers["T"] = <<"i1">>

C3_SelfRejected ==
    [][(last'.op \in {"addContainer", "replaceContainer"} /\ last'.arg = last'.self) =>
        /\ last'.err # None
        /\ containers' = containers
      ]_vars

\* replaceContainer(0, S) on S holding two containers was refused
C3_Witness ==
    /\ last.op = "replaceContainer" /\ last.self = "S" /\ last.arg = "S"
    /\ last.index = 0 /\ last.err = "Exception"
    /\ Len(containers["S"]) = 2

\* C5: getContainer(-1), replaceContainer(-1, x) and removeContainer(-1) raise
\* IndexError on a stack of any size, removeContainer(i) raises IndexError for
\* every i >= the number of containers, and the list is unchanged.
C5_SentinelIndex ==
    [][(\/ /\ last'.op \in {"getContainer", "replaceContainer", "removeContainer"}
           /\ last'.index = -1
        \/ /\ last'.op = "removeContainer"
           /\ last'.index >= Len(containers[last'.self])) =>
        /\ last'.err = "IndexError"
        /\ containers' = containers
      ]_vars

\* removeContainer(-1) was refused on a stack of two, where -1 is the last container
C5_Witness ==
    /\ last.op = "removeContainer" /\ last.self = "S" /\ last.index = -1
    /\ last.err = "IndexError"
    /\ Len(containers["S"]) = 2

\* C6: for a stack of n containers, getContainer(i), replaceContainer(i, c) and
\* removeContainer(i) raise IndexError and leave the list unchanged for every i
\* outside 0..n-1, negative indices below -1 included.
C6_EveryIndexOutside ==
    [][(/\ last'.op \in {"getContainer", "replaceContainer", "removeContainer"}
        /\ last'.arg # last'.self
        /\ (last'.index < 0 \/ last'.index >= Len(containers[last'.self]))) =>
        /\ last'.err = "IndexError"
        /\ containers' = containers
      ]_vars

\* C14: every addContainer, replaceContainer and removeContainer call that
\* completes is followed by a containersChanged notification to the observers of
\* the stack.
C14_MutationNotifies ==
    [][(/\ last'.op \in {"addContainer", "replaceContainer", "removeContainer"}
        /\ last'.err = None) =>
        \E i \in 1 .. Len(emitted') : emitted'[i] = "containersChanged"
      ]_vars

----------------------------------------------------------------------------
(***************************************************************************)
(* Python string operations used by the serialised form.  A string is a    *)
(* sequence of characters.  The alphabet is letters, digits, the space and *)
(* the comma: no newline, no "=", ":", "#", ";" or brackets, which the INI *)
(* syntax gives a meaning of their own.                                    *)
(***************************************************************************)
LowerChar(c) ==
    CASE c = "A" -> "a" [] c = "N" -> "n" [] c = "X" -> "x" [] OTHER -> c

\* str.lower()
lower(str) == [i \in 1 .. Len(str) |-> LowerChar(str[i])]

RECURSIVE lstrip(_), rstrip(_)
lstrip(str) == IF str # <<>> /\ Head(str) = " " THEN lstrip(Tail(str)) ELSE str
rstrip(str) ==
    IF str # <<>> /\ str[Len(str)] = " " THEN rstrip(SubSeq(str, 1, Len(str) - 1)) ELSE str

\* str.strip()
strip(str) == lstrip(rstrip(str))

\* str.split(sep): the pieces between the separators, empty pieces included
RECURSIVE splitFrom(_, _, _)
splitFrom(str, sep, piece) ==
    IF str = <<>> THEN <<piece>>
    ELSE IF Head(str) = sep THEN <<piece>> \o splitFrom(Tail(str), sep, <<>>)
    ELSE splitFrom(Tail(str), sep, Append(piece, Head(str)))

split(str, sep) == splitFrom(str, sep, <<>>)

Digits == <<"0", "1", "2", "3", "4", "5", "6", "7", "8", "9">>
DigitValue(c) == (CHOOSE i \in 1 .. 10 : Digits[i] = c) - 1
IsDigit(c) == \E i \in 1 .. 10 : Digits[i] = c

\* int(str) of an unsigned decimal numeral; int raises ValueError for the other
\* strings of the alphabet, which are not numerals
IsNumeral(str) == str # <<>> /\ \A i \in 1 .. Len(str) : IsDigit(str[i])

RECURSIVE intFrom(_, _)
intFrom(str, acc) ==
    IF str = <<>> THEN acc ELSE intFrom(Tail(str), 10 * acc + DigitValue(Head(str)))

int(str) == intFrom(str, 0)

\* str(n) for the version number
strOfVersion(n) == <<Digits[n + 1]>>

(***************************************************************************)
(* configparser.ConfigParser(interpolation = None).  A parser is the       *)
(* sequence of its sections, each a name and an insertion-ordered sequence *)
(* of <<option, value>> pairs.  A text is the sequence of its lines: a     *)
(* header [h |-> section] or an option [k |-> key, v |-> value] for the    *)
(* line "key = value".  Option names go through optionxform (lower case);  *)
(* read_string strips the value of every option line.                      *)
(***************************************************************************)
EmptyParser == <<>>

HasSection(parser, section) == \E i \in 1 .. Len(parser) : parser[i].name = section
SectionIndex(parser, section) == CHOOSE i \in 1 .. Len(parser) : parser[i].name = section
Options(parser, section) == parser[SectionIndex(parser, section)].opts

DictHas(dict, key) == \E i \in 1 .. Len(dict) : dict[i][1] = key
DictGet(dict, key) == dict[CHOOSE i \in 1 .. Len(dict) : dict[i][1] = key][2]
\* dict[key] = value: an existing key keeps its place
DictSet(dict, key, value) ==
    IF DictHas(dict, key)
    THEN [i \in 1 .. Len(dict) |-> IF dict[i][1] = key THEN <<key, value>> ELSE dict[i]]
    ELSE Append(dict, <<key, value>>)

\* parser[section] = {}
AddSection(parser, section) == Append(parser, [name |-> section, opts |-> <<>>])

\* parser[section][key] = value
SetOption(parser, section, key, value) ==
    [parser EXCEPT ![SectionIndex(parser, section)].opts = DictSet(@, lower(key), value)]

\* key in parser[section]
HasOption(parser, section, key) ==
    HasSection(parser, section) /\ DictHas(Options(parser, section), lower(key))

\* parser[section].get(key, fallback)
GetOption(parser, section, key, fallback) ==
    IF HasOption(parser, section, key)
    THEN DictGet(Options(parser, section), lower(key))
    ELSE fallback

\* parser.write(stream): the header of each section, then its options
RECURSIVE writeOptions(_)
writeOptions(opts) ==
    IF opts = <<>> THEN <<>>
    ELSE <<[k |-> Head(opts)[1], v |-> Head(opts)[2]]>> \o writeOptions(Tail(opts))

RECURSIVE write(_)
write(parser) ==
    IF parser = <<>> THEN <<>>
    ELSE <<[h |-> Head(parser).name]>> \o writeOptions(Head(parser).opts)
            \o write(Tail(parser))

\* parser.read_string(text) for a text whose first line is a header and that
\* repeats no section and no option
RECURSIVE readLines(_, _, _)
readLines(text, parser, section) ==
    IF text = <<>> THEN parser
    ELSE LET line == Head(text)
         IN  IF "h" \in DOMAIN line
             THEN readLines(Tail(text), AddSection(parser, line.h), line.h)
             ELSE readLines(Tail(text),
                            SetOption(parser, section, rstrip(line.k), strip(line.v)),
                            section)

read_string(text) == readLines(text, EmptyParser, None)

K_version == <<"v", "e", "r", "s", "i", "o", "n">>
K_name == <<"n", "a", "m", "e">>
K_id == <<"i", "d">>
K_containers == <<"c", "o", "n", "t", "a", "i", "n", "e", "r", "s">>

----------------------------------------------------------------------------
(***************************************************************************)
(* The container registry, asked for the containers of one kind that carry *)
(* an id.  ids gives the id of every stack at the time of the question.    *)
(***************************************************************************)
LeafId == [c \in Leaves |-> CASE c = "d1" -> <<"a">> [] c = "i1" -> <<"a">> [] c = "i2" -> <<"b">>]

RegisteredDefinitionContainers == <<"d1">>
RegisteredInstanceContainers == <<"i1", "i2">>
RegisteredContainerStacks == <<"S", "T", "U">>

findDefinitionContainers(id, ids) ==
    SelectSeq(RegisteredDefinitionContainers, LAMBDA c : LeafId[c] = id)
findInstanceContainers(id, ids) ==
    SelectSeq(RegisteredInstanceContainers, LAMBDA c : LeafId[c] = id)
findContainerStacks(id, ids) ==
    SelectSeq(RegisteredContainerStacks, LAMBDA c : ids[c] = id)

\* container.getId()
getId(c, ids) == IF c \in Leaves THEN LeafId[c] ELSE ids[c]

(***************************************************************************)
(* ContainerStack.serialize and ContainerStack.deserialize.  A stack is    *)
(* the record of its fields.                                               *)
(***************************************************************************)
Version == 2

StackRecord(self) ==
    [id |-> stack_id[self], name |-> stack_name[self], metadata |-> metadata[self],
     containers |-> containers[self], next_stack |-> next_stack[self]]

RECURSIVE setMetadata(_, _)
setMetadata(parser, items) ==
    IF items = <<>> THEN parser
    ELSE setMetadata(SetOption(parser, "metadata", Head(items)[1], Head(items)[2]),
                     Tail(items))

RECURSIVE container_id_string(_, _)
container_id_string(list, ids) ==
    IF list = <<>> THEN <<>>
    ELSE getId(Head(list), ids) \o <<",">> \o container_id_string(Tail(list), ids)

serialize(st, ids) ==
    LET p0 == AddSection(EmptyParser, "general")
        p1 == SetOption(p0, "general", K_version, strOfVersion(Version))
        p2 == SetOption(p1, "general", K_name, st.name)
        p3 == SetOption(p2, "general", K_id, st.id)
        p4 == AddSection(p3, "metadata")
        p5 == setMetadata(p4, st.metadata)
        p6 == SetOption(p5, "general", K_containers, container_id_string(st.containers, ids))
    IN  write(p6)

\* mutant of deserializeCheck: the version is not compared
deserializeCheckNoVersion(parser) ==
    IF \/ ~HasSection(parser, "general")
       \/ ~HasOption(parser, "general", K_version)
       \/ ~HasOption(parser, "general", K_name)
       \/ ~HasOption(parser, "general", K_id)
    THEN "InvalidContainerStackError"
    ELSE None

\* the exception the validation of deserialize raises, None when it raises none
deserializeCheck(parser) ==
    IF \/ ~HasSection(parser, "general")
       \/ ~HasOption(parser, "general", K_version)
       \/ ~HasOption(parser, "general", K_name)
       \/ ~HasOption(parser, "general", K_id)
    THEN "InvalidContainerStackError"
    ELSE IF ~IsNumeral(GetOption(parser, "general", K_version, None))
    THEN "ValueError"
    ELSE IF int(GetOption(parser, "general", K_version, None)) # Version
    THEN "IncorrectVersionError"
    ELSE None

\* mutant of resolveContainer: instance containers are probed first
resolveContainerInstanceFirst(container_id, ids) ==
    IF findInstanceContainers(container_id, ids) # <<>>
    THEN findInstanceContainers(container_id, ids)[1]
    ELSE IF findDefinitionContainers(container_id, ids) # <<>>
    THEN findDefinitionContainers(container_id, ids)[1]
    ELSE IF findContainerStacks(container_id, ids) # <<>>
    THEN findContainerStacks(container_id, ids)[1]
    ELSE None

\* the container one id of the list stands for, None when the registry has none
resolveContainer(container_id, ids) ==
    IF findDefinitionContainers(container_id, ids) # <<>>
    THEN findDefinitionContainers(container_id, ids)[1]
    ELSE IF findInstanceContainers(container_id, ids) # <<>>
    THEN findInstanceContainers(container_id, ids)[1]
    ELSE IF findContainerStacks(container_id, ids) # <<>>
    THEN findContainerStacks(container_id, ids)[1]
    ELSE None

\* the loop over container_id_list: appends to list until an id is unknown
RECURSIVE deserializeContainers(_, _, _)
deserializeContainers(container_id_list, list, ids) ==
    IF container_id_list = <<>> THEN [err |-> None, containers |-> list]
    ELSE IF Head(container_id_list) = <<>>
    THEN deserializeContainers(Tail(container_id_list), list, ids)
    ELSE IF resolveContainer(Head(container_id_list), ids) = None
    THEN [err |-> "Exception", containers |-> list]
    ELSE deserializeContainers(Tail(container_id_list),
            Append(list, resolveContainer(Head(container_id_list), ids)), ids)

\* st.deserialize(serialized) for the stack object self ("fresh" for a stack the
\* registry does not hold): the exception raised and the fields afterwards
deserialize(st, serialized, self) ==
    LET parser == read_string(serialized)
        err == deserializeCheck(parser)
        new_id == GetOption(parser, "general", K_id, None)
        ids == IF self \in Stacks THEN [stack_id EXCEPT ![self] = new_id] ELSE stack_id
        loop == deserializeContainers(
                    split(GetOption(parser, "general", K_containers, <<>>), ","),
                    st.containers, ids)
    IN  IF err # None THEN [err |-> err, stack |-> st]
        ELSE [err |-> loop.err,
              stack |-> [id |-> new_id,
                         name |-> GetOption(parser, "general", K_name, None),
                         metadata |-> IF HasSection(parser, "metadata")
                                      THEN Options(parser, "metadata")
                                      ELSE st.metadata,
                         containers |-> loop.containers,
                         next_stack |-> st.next_stack]]

deserializeCall(self, text) ==
    LET r == deserialize(StackRecord(self), text, self)
    IN  /\ stack_id' = [stack_id EXCEPT ![self] = r.stack.id]
        /\ stack_name' = [stack_name EXCEPT ![self] = r.stack.name]
        /\ metadata' = [metadata EXCEPT ![self] = r.stack.metadata]
        /\ containers' = [containers EXCEPT ![self] = r.stack.containers]
        /\ last' = Call("deserialize", self, text, 0, r.err, None)
        /\ UNCHANGED <<next_stack, values, definition_container>>
        /\ emitted' = <<>>
        /\ UNCHANGED <<type_definitions, providerVars, toolVars>>

\* ContainerStack(fresh_id).deserialize(self.serialize())
FreshId == <<"f">>

serializeRoundTrip(self) ==
    LET text == serialize(StackRecord(self), stack_id)
        r == deserialize(ContainerStackInit(FreshId), text, "fresh")
    IN  /\ last' = Call("roundTrip", self, text, 0, r.err, r.stack)
        /\ UNCHANGED <<stackVars, values, definition_container>>
        /\ emitted' = <<>>
        /\ UNCHANGED <<type_definitions, providerVars, toolVars>>

setName(self, name) ==
    /\ IF name # stack_name[self]
       THEN stack_name' = [stack_name EXCEPT ![self] = name]
       ELSE stack_name' = stack_name
    /\ emitted' = IF name # stack_name[self] THEN <<"nameChanged">> ELSE <<>>
    /\ UNCHANGED <<type_definitions, providerVars, toolVars>>
    /\ last' = Call("setName", self, name, 0, None, None)
    /\ UNCHANGED <<stack_id, metadata, containers, next_stack, values, definition_container>>

\* stack.getMetaData()[key] = value: getMetaData hands out the dictionary itself
getMetaDataSetItem(self, key, value) ==
    /\ metadata' = [metadata EXCEPT ![self] = DictSet(@, key, value)]
    /\ last' = Call("getMetaData", self, <<key, value>>, 0, None, None)
    /\ UNCHANGED <<stack_id, stack_name, containers, next_stack, values, definition_container>>
    /\ emitted' = <<>>
    /\ UNCHANGED <<type_definitions, providerVars, toolVars>>

----------------------------------------------------------------------------
(***************************************************************************)
(* Serialised stacks handed to deserialize.  A document names the options  *)
(* its general section has (no general section when general is FALSE) and  *)
(* whether it has a metadata section.                                      *)
(***************************************************************************)
Doc(general, has, version, name, id, conts, hasMetadata, meta) ==
    [general |-> general, has |-> has, version |-> version, name |-> name, id |-> id,
     containers |-> conts, hasMetadata |-> hasMetadata, metadata |-> meta]

AllOptions == {"version", "name", "id", "containers"}

\* container lists: none; d1 and i2; i2, an empty id and U; d1 and an unknown
\* id; the id of the stack under test
ContainerLists ==
    { <<>>,
      <<"a", ",", "b", ",">>,
      <<"b", ",", ",", "u">>,
      <<"a", ",", "z", ",">>,
      <<"s", ",">> }

ValidDocs ==
    { Doc(TRUE, AllOptions, <<"2">>, <<"n">>, <<"s">>, c, m, <<<<<<"x">>, <<"1">>>>>>) :
        c \in ContainerLists, m \in BOOLEAN }
    \cup { Doc(TRUE, AllOptions \ {"containers"}, <<"2">>, <<"n">>, <<"s">>, <<>>, TRUE, <<>>),
           Doc(TRUE, AllOptions, <<" ", "2">>, <<" ", "n">>, <<"f">>, <<"a", ",">>, TRUE,
               <<<<<<"X">>, <<"1", " ">>>>>>) }

\* one document per way of failing the validation
InvalidDocs ==
    { Doc(g, h, v, <<"m">>, <<"f">>, <<"a", ",">>, TRUE, <<<<<<"x">>, <<"1">>>>>>) :
        g \in {TRUE}, h \in {AllOptions}, v \in {<<"1">>, <<"3">>, <<"x">>} }
    \cup { Doc(TRUE, AllOptions \ {o}, v, <<"m">>, <<"f">>, <<"a", ",">>, TRUE,
               <<<<<<"x">>, <<"1">>>>>>) :
            o \in {"version", "name", "id"}, v \in {<<"2">>, <<"3">>} }
    \cup { Doc(FALSE, {}, <<"2">>, <<"m">>, <<"f">>, <<"a", ",">>, TRUE,
               <<<<<<"x">>, <<"1">>>>>>) }

SerialDocs == ValidDocs \cup InvalidDocs

RECURSIVE renderMetadata(_)
renderMetadata(items) ==
    IF items = <<>> THEN <<>>
    ELSE <<[k |-> Head(items)[1], v |-> Head(items)[2]]>> \o renderMetadata(Tail(items))

\* the text of a document
Render(d) ==
    (IF d.general
     THEN <<[h |-> "general"]>>
          \o (IF "version" \in d.has THEN <<[k |-> K_version, v |-> d.version]>> ELSE <<>>)
          \o (IF "name" \in d.has THEN <<[k |-> K_name, v |-> d.name]>> ELSE <<>>)
          \o (IF "id" \in d.has THEN <<[k |-> K_id, v |-> d.id]>> ELSE <<>>)
          \o (IF "containers" \in d.has
              THEN <<[k |-> K_containers, v |-> d.containers]>> ELSE <<>>)
     ELSE <<>>)
    \o (IF d.hasMetadata THEN <<[h |-> "metadata"]>> \o renderMetadata(d.metadata) ELSE <<>>)

Names == {<<"n">>, <<"N", " ">>}
MetaKeys == {<<"x">>, <<"X">>}
MetaValues == {<<"1">>}

(***************************************************************************)
(* Serialisation: the stack under test is mutated, renamed, given metadata,*)
(* deserialised from each document and round-tripped through serialize.    *)
(***************************************************************************)
InitSerial ==
    /\ InitStacks
    /\ values = [c \in Leaves |-> [k \in Keys |-> None]]

NextSerial ==
    \/ \E c \in {"i1", "T", "S"} : Len(containers["S"]) < MaxLen /\ addContainer("S", c)
    \/ \E c \in {"i2", "S"} : replaceContainer("S", 0, c)
    \/ removeContainer("S", 0)
    \/ \E d \in SerialDocs : Len(containers["S"]) < MaxLen /\ deserializeCall("S", Render(d))
    \/ serializeRoundTrip("S")
    \/ \E n \in Names : setName("S", n)
    \/ \E k \in MetaKeys, v \in MetaValues : getMetaDataSetItem("S", k, v)

SpecSerial == InitSerial /\ [][NextSerial]_vars

----------------------------------------------------------------------------
(***************************************************************************)
(* Claims about serialisation, checked under SpecSerial.                   *)
(***************************************************************************)
Range(seq) == {seq[i] : i \in 1 .. Len(seq)}

\* C4: in every state reached by addContainer, replaceContainer, removeContainer
\* and deserialize calls, with a registry that holds the stack itself, the
\* container list of a stack never holds that stack.
C4_NeverContainsItself ==
    \A self \in Stacks : self \notin Range(containers[self])

\* the ids of a container list, in order
ContainerIds(list, ids) == [i \in 1 .. Len(list) |-> getId(list[i], ids)]

\* every container of the stack is found in the registry under its id, and no
\* id holds a comma
AllResolvable(self) ==
    \A c \in Range(containers[self]) :
        /\ getId(c, stack_id) # <<>>
        /\ "," \notin Range(getId(c, stack_id))
        /\ resolveContainer(getId(c, stack_id), stack_id) # None

\* C7: for a stack whose containers are all resolvable by id, deserializing
\* its serialize() output into a fresh stack gives the same id, name, metadata
\* mapping and sequence of container ids.
C7_RoundTrip ==
    (last.op = "roundTrip" /\ AllResolvable(last.self)) =>
        /\ last.err = None
        /\ last.ret.id = stack_id[last.self]
        /\ last.ret.name = stack_name[last.self]
        /\ Range(last.ret.metadata) = Range(metadata[last.self])
        /\ ContainerIds(last.ret.containers, stack_id)
            = ContainerIds(containers[last.self], stack_id)

DocLacks(d) == ~d.general \/ ~({"version", "name", "id"} \subseteq d.has)
DocVersionDiffers(d) == strip(d.version) # strOfVersion(Version)
DocVersionIsInteger(d) ==
    strip(d.version) # <<>> /\ \A i \in 1 .. Len(strip(d.version)) : strip(d.version)[i] \in Range(Digits)

\* C8 as stated: deserialize raises InvalidContainerStackError when the text
\* lacks the general section or one of version, name, id in it, and
\* IncorrectVersionError when these are present and the version differs from
\* the expected one; in both cases id, name, metadata, container list and next
\* stack are as before.
C8_VersionDiffersRefused ==
    [][\A d \in SerialDocs :
        (last'.op = "deserialize" /\ last'.arg = Render(d)) =>
            /\ DocLacks(d) =>
                (last'.err = "InvalidContainerStackError" /\ UNCHANGED stackVars)
            /\ (~DocLacks(d) /\ DocVersionDiffers(d)) =>
                (last'.err = "IncorrectVersionError" /\ UNCHANGED stackVars)
      ]_vars

\* C8: deserialize raises InvalidContainerStackError when the text lacks the
\* general section or one of version, name, id in it, IncorrectVersionError
\* when these are present and the version is an integer other than the
\* expected one, and ValueError when these are present and the version is not
\* an integer; in all three cases id, name, metadata, container list and next
\* stack are as before.
C8_DeserializeValidates ==
    [][\A d \in SerialDocs :
        (last'.op = "deserialize" /\ last'.arg = Render(d)) =>
            /\ DocLacks(d) =>
                (last'.err = "InvalidContainerStackError" /\ UNCHANGED stackVars)
            /\ (~DocLacks(d) /\ DocVersionIsInteger(d) /\ DocVersionDiffers(d)) =>
                (last'.err = "IncorrectVersionError" /\ UNCHANGED stackVars)
            /\ (~DocLacks(d) /\ ~DocVersionIsInteger(d)) =>
                (last'.err = "ValueError" /\ UNCHANGED stackVars)
      ]_vars

\* a text of another version, id, name and metadata was refused by a stack that
\* holds a container and metadata
C8_Witness ==
    /\ last.op = "deserialize" /\ last.err = "IncorrectVersionError"
    /\ \E d \in InvalidDocs :
        /\ last.arg = Render(d)
        /\ d.id # stack_id["S"] /\ d.name # stack_name["S"]
    /\ containers["S"] = <<"i1">>
    /\ metadata["S"] = <<<<<<"X">>, <<"1">>>>>>

\* the container an id stands for: the definition container with that id, else
\* the instance container, else the stack
Registered(kind, id, ids) == {c \in kind : getId(c, ids) = id}
Resolved(id, ids) ==
    IF Registered(DefinitionContainers, id, ids) # {}
    THEN CHOOSE c \in Registered(DefinitionContainers, id, ids) : TRUE
    ELSE IF Registered(InstanceContainers, id, ids) # {}
    THEN CHOOSE c \in Registered(InstanceContainers, id, ids) : TRUE
    ELSE CHOOSE c \in Registered(Stacks, id, ids) : TRUE
IsRegistered(id, ids) == Registered(Objects, id, ids) # {}

\* the non-empty ids of the containers option of a document
DocContainerIds(d) ==
    IF "containers" \in d.has
    THEN SelectSeq(split(strip(d.containers), ","), LAMBDA id : id # <<>>)
    ELSE <<>>

\* C10: deserialize resolves each non-empty id of the containers list, in list
\* order, to the definition container with that id if there is one, else the
\* instance container, else the stack; an id that matches none makes the whole
\* deserialize fail.
C10_ResolutionOrder ==
    [][\A d \in ValidDocs :
        (last'.op = "deserialize" /\ last'.arg = Render(d)) =>
            LET wanted == DocContainerIds(d)
            IN  IF \A i \in 1 .. Len(wanted) : IsRegistered(wanted[i], stack_id')
                THEN /\ last'.err = None
                     /\ containers'["S"] = containers["S"] \o
                            [i \in 1 .. Len(wanted) |-> Resolved(wanted[i], stack_id')]
                ELSE last'.err = "Exception"
      ]_vars

\* "b,,u" was resolved to the instance container i2 (not the stack T of the same
\* id) and the stack U, the empty id skipped
C10_Witness ==
    /\ last.op = "deserialize" /\ last.err = None
    /\ \E d \in ValidDocs : last.arg = Render(d) /\ d.containers = <<"b", ",", ",", "u">>
    /\ containers["S"] = <<"i2", "U">>

\* C11: when deserialize fails because an id of the containers list is not
\* registered, id, name, metadata, container list and next stack of the stack are
\* what they were before the call.
C11_FailedResolutionLeavesStack ==
    [][(last'.op = "deserialize" /\ last'.err = "Exception") => UNCHANGED stackVars]_vars

\* the metadata section of a document as deserialize reads it
DocMetadata(d) ==
    IF d.hasMetadata THEN Options(read_string(Render(d)), "metadata") ELSE <<>>

\* C13: a successful deserialize replaces the contents of the stack: afterwards
\* the container list holds exactly the containers the text names, in order, and
\* the metadata is the metadata section of the text, empty when it has none.
C13_DeserializeReplaces ==
    [][\A d \in ValidDocs :
        (last'.op = "deserialize" /\ last'.arg = Render(d) /\ last'.err = None) =>
            /\ containers'["S"] =
                [i \in 1 .. Len(DocContainerIds(d)) |->
                    Resolved(DocContainerIds(d)[i], stack_id')]
            /\ metadata'["S"] = DocMetadata(d)
      ]_vars

----------------------------------------------------------------------------
(***************************************************************************)
(* JSON documents as json.loads(..., object_pairs_hook = OrderedDict)      *)
(* gives them.  A value is tagged with its Python type: a dict holds the   *)
(* insertion-ordered sequence of its <<key, value>> pairs, a str its text, *)
(* an int its numeral.  A raised exception is a value tagged "raise".      *)
(***************************************************************************)
\* about names what the message of the exception is about
RaiseAbout(exception, about) == [t |-> "raise", v |-> exception, about |-> about]
Raise(exception) == RaiseAbout(exception, <<>>)

IsDict(x) == x.t = "dict"
IsRaise(x) == x.t = "raise"

\* key in dict
\* result when value is an exception, else then
Try(value, then) == IF IsRaise(value) THEN value ELSE then

JHas(dict, key) == DictHas(dict.v, key)
\* dict[key]
JGet(dict, key) == DictGet(dict.v, key)
\* dict[key] = value
JSet(dict, key, value) == JDict(DictSet(dict.v, key, value))

\* json value == n for the int n
JEqualsInt(x, n) == x.t = "int" /\ x.v = ToString(n)

(***************************************************************************)
(* DefinitionContainer: _verifyJson, _mergeDicts, _loadFile and            *)
(* _resolveInheritance.                                                    *)
(***************************************************************************)
DefinitionVersion == 2

\* mutant of verifyJson: the version is not compared
verifyJsonNoVersion(json) ==
    IF ~JHas(json, "version") THEN "InvalidDefinitionError"
    ELSE IF ~JHas(json, "name") THEN "InvalidDefinitionError"
    ELSE None

\* the exception _verifyJson raises, None when it raises none
verifyJson(json) ==
    IF ~JHas(json, "version") THEN "InvalidDefinitionError"
    ELSE IF ~JHas(json, "name") THEN "InvalidDefinitionError"
    ELSE IF ~JEqualsInt(JGet(json, "version"), DefinitionVersion)
    THEN "IncorrectDefinitionVersionError"
    ELSE None

\* _mergeDicts(first, second) for a dict second: a copy of first updated key by
\* key.  When first is no dict, "key in first" or the assignment to first[key]
\* raises TypeError, so only an empty second leaves it alone.
RECURSIVE mergeDicts(_, _), mergeItems(_, _)
setMerged(result, items, key, merged) ==
    IF IsRaise(merged) THEN merged ELSE mergeItems(JSet(result, key, merged), Tail(items))
\* the round with the whole result merged where result[key] is meant
mergeItemOfResult(result, items, key, value) ==
    IF JHas(result, key) /\ IsDict(value)
    THEN setMerged(result, items, key, mergeDicts(result, value))
    ELSE mergeItems(JSet(result, key, value), Tail(items))
mergeItem(result, items, key, value) ==
    IF JHas(result, key) /\ IsDict(value)
    THEN setMerged(result, items, key, mergeDicts(JGet(result, key), value))
    ELSE mergeItems(JSet(result, key, value), Tail(items))
mergeItems(result, items) ==
    IF items = <<>> THEN result
    ELSE IF ~IsDict(result) THEN Raise("TypeError")
    ELSE mergeItem(result, items, Head(items)[1], Head(items)[2])

mergeDicts(first, second) == mergeItems(first, second.v)


----------------------------------------------------------------------------
(***************************************************************************)
(* SettingDefinition: the supported properties, the setting types and      *)
(* _deserialize_dict.  A definition is its key, its property values and    *)
(* the sequence of its children.                                           *)
(***************************************************************************)
\* __property_definitions, in the order of the dictionary
PropertyNames ==
    <<"label", "type", "icon", "unit", "description", "warning_description",
      "error_description", "default_value", "value", "enabled", "minimum_value",
      "maximum_value", "minimum_value_warning", "maximum_value_warning", "options",
      "comments">>

PropertyType(name) ==
    CASE name \in {"label", "description", "warning_description", "error_description"}
            -> "TranslatedString"
      [] name \in {"type", "icon", "unit", "comments"} -> "String"
      [] name \in {"default_value", "options"} -> "Any"
      [] OTHER -> "Function"

\* SettingDefinition.hasProperty
hasProperty(name) == \E i \in 1 .. Len(PropertyNames) : PropertyNames[i] = name

\* SettingDefinition.isRequiredProperty
isRequiredProperty(name) == name \in {"label", "type", "description"}

\* SettingDefinition.getPropertyNames(type)
getPropertyNames(type) == SelectSeq(PropertyNames, LAMBDA name : PropertyType(name) = type)


\* str(value)
PyStr(value) == IF value.t \in {"str", "int", "none"} THEN JStr(value.v) ELSE JStr("{...}")

\* SettingFunction(str(value)): the compiled expression keeps its text
SettingFunction(value) == [t |-> "function", v |-> PyStr(value).v]

NoProperties == [name \in {} |-> JNone]
PropertySet(property_values, name, value) ==
    [n \in DOMAIN property_values \cup {name} |->
        IF n = name THEN value ELSE property_values[n]]

\* a SettingDefinition with its key, its property values and its children
SettingDefinition(key, property_values, children) ==
    [t |-> "definition", key |-> key, property_values |-> property_values,
     children |-> children]

\* the first required property that has no value, None when there is none
RECURSIVE missingRequired(_, _)
missingRequired(names, property_values) ==
    IF names = <<>> THEN None
    ELSE IF isRequiredProperty(Head(names)) /\ Head(names) \notin DOMAIN property_values
    THEN Head(names)
    ELSE missingRequired(Tail(names), property_values)

\* the loop of _deserialize_dict without the check after it
requiredCheckSkipped(definition) == definition

\* the check after the loop of _deserialize_dict
requiredCheck(definition) ==
    IF IsRaise(definition) THEN definition
    ELSE IF missingRequired(PropertyNames, definition.property_values) # None
    THEN RaiseAbout("AttributeError",
            <<definition.key, missingRequired(PropertyNames, definition.property_values)>>)
    ELSE definition

Numerals == {"0", "1", "2", "3", "4", "5", "6", "7", "8", "9"}
IsNumeralText(text) ==
    Len(text) > 0 /\ \A i \in 1 .. Len(text) : SubSeq(text, i, i) \in Numerals

\* json.loads(text) of the texts that occur as values of a document: a numeral
\* is a number, any other of them is not a JSON document
jsonLoads(text) == IF IsNumeralText(text) THEN JInt(text) ELSE Raise("JSONDecodeError")

\* _deserialize_dict and deserialize of a definition with the given key and
\* property values (none for a new definition): the definition afterwards, or
\* the exception raised
RECURSIVE deserializeDict(_, _, _), deserializeDefinition(_, _, _)
RECURSIVE deserializeItems(_, _), deserializeChildren(_, _)

appendChild(items, children, child) ==
    IF IsRaise(child) THEN child
    ELSE deserializeChildren(Tail(items), Append(children, child))
deserializeChildren(items, children) ==
    IF items = <<>> THEN [t |-> "children", v |-> children]
    ELSE appendChild(items, children,
            deserializeDefinition(Head(items)[1], Head(items)[2], NoProperties))

\* the value stored for a property of each kind
propertyValue(key, value) ==
    CASE PropertyType(key) = "Any" -> value
      [] PropertyType(key) = "String" -> PyStr(value)
      [] PropertyType(key) = "TranslatedString" -> value
      [] PropertyType(key) = "Function" -> SettingFunction(value)

withChildren(items, definition, children) ==
    IF IsRaise(children) THEN children
    ELSE deserializeItems(Tail(items), [definition EXCEPT !.children = children.v])

\* one round of the loop of _deserialize_dict
deserializeItem(items, definition, key, value) ==
    IF key = "children"
    THEN IF ~IsDict(value) THEN Raise("AttributeError")
         ELSE withChildren(items, definition,
                           deserializeChildren(value.v, definition.children))
    ELSE IF hasProperty(key) /\ key = "type" /\ IsDict(value) THEN Raise("TypeError")
    ELSE IF hasProperty(key) /\ key = "type" /\ ~(value.t = "str" /\ value.v \in TypeNames)
    THEN Raise("ValueError")
    ELSE deserializeItems(Tail(items),
            IF hasProperty(key)
            THEN [definition EXCEPT
                    !.property_values = PropertySet(@, key, propertyValue(key, value))]
            ELSE definition)

deserializeItems(items, definition) ==
    IF items = <<>> THEN definition
    ELSE deserializeItem(items, definition, Head(items)[1], Head(items)[2])

deserializeDict(key, serialized, property_values) ==
    IF IsRaise(serialized) THEN serialized
    ELSE IF ~IsDict(serialized) THEN Raise("AttributeError")
    ELSE requiredCheck(deserializeItems(serialized.v,
                                        SettingDefinition(key, property_values, <<>>)))

deserializeDefinition(key, serialized, property_values) ==
    IF IsDict(serialized) THEN deserializeDict(key, serialized, property_values)
    ELSE IF serialized.t # "str" THEN Raise("TypeError")
    ELSE deserializeDict(key, jsonLoads(serialized.v), property_values)

----------------------------------------------------------------------------
(***************************************************************************)
(* The expressions of Function properties.  The text of an expression is   *)
(* kept; the keys it uses are its identifiers, in the order of their first *)
(* occurrence.                                                             *)
(***************************************************************************)
Letters ==
    {"a", "b", "c", "d", "e", "f", "g", "h", "i", "j", "k", "l", "m", "n", "o", "p", "q",
     "r", "s", "t", "u", "v", "w", "x", "y", "z", "_"}
ExpressionConstants == {"None", "True", "False"}

SeqHas(seq, x) == \E i \in 1 .. Len(seq) : seq[i] = x

\* the identifiers of text from position i on, word being the identifier read so far
RECURSIVE identifiersFrom(_, _, _, _)
identifiersFrom(text, i, word, found) ==
    LET closed == IF word = "" \/ word \in ExpressionConstants \/ SeqHas(found, word)
                  THEN found ELSE Append(found, word)
    IN  IF i > Len(text) THEN closed
        ELSE IF SubSeq(text, i, i) \in Letters \/ SubSeq(text, i, i) \in {"N", "T", "F"}
        THEN identifiersFrom(text, i + 1, word \o SubSeq(text, i, i), found)
        ELSE identifiersFrom(text, i + 1, "", closed)

\* SettingFunction.getUsedSettings
getUsedSettings(function) == identifiersFrom(function.v, 1, "", <<>>)


----------------------------------------------------------------------------
(***************************************************************************)
(* DefinitionContainer: the forest of definitions, addressed by paths of   *)
(* positions, and the relations between them.                              *)
(***************************************************************************)
RECURSIVE nodePaths(_, _), forestPaths(_, _, _)
\* the paths of children[i..] under path and of their descendants, depth first
forestPaths(children, path, i) ==
    IF i > Len(children) THEN <<>>
    ELSE nodePaths(children[i], Append(path, i)) \o forestPaths(children, path, i + 1)
nodePaths(definition, path) == <<path>> \o forestPaths(definition.children, path, 1)

RECURSIVE nodeAt(_, _)
\* the definition at path in a list of definitions
nodeAt(definitions, path) ==
    IF Len(path) = 1 THEN definitions[path[1]]
    ELSE nodeAt(definitions[path[1]].children, Tail(path))

\* getattr(definition, name) != value fails or raises AttributeError
HasAttribute(definition, name) ==
    name = "key" \/ (hasProperty(name) /\ name \in DOMAIN definition.property_values)
GetAttribute(definition, name) ==
    IF name = "key" THEN JStr(definition.key) ELSE definition.property_values[name]
Matches(definition, criteria) ==
    \A i \in 1 .. Len(criteria) :
        /\ HasAttribute(definition, criteria[i][1])
        /\ GetAttribute(definition, criteria[i][1]) = criteria[i][2]

\* DefinitionContainer.findDefinitions(**criteria), as paths
findDefinitions(definitions, criteria) ==
    SelectSeq(forestPaths(definitions, <<>>, 1),
              LAMBDA path : Matches(nodeAt(definitions, path), criteria))

SettingRelation(owner, target, type, role) ==
    [owner |-> owner, target |-> target, type |-> type, role |-> role]

\* _processFunction for the used settings from position i on
RECURSIVE processFunctionFrom(_, _, _, _, _, _)
processFunctionFrom(definitions, path, property, used, i, relations) ==
    IF i > Len(used) THEN relations
    ELSE LET other == findDefinitions(definitions, << <<"key", JStr(used[i])>> >>)
         IN  IF other = <<>>
             THEN processFunctionFrom(definitions, path, property, used, i + 1, relations)
             ELSE processFunctionFrom(definitions, path, property, used, i + 1,
                    relations \o
                    << SettingRelation(path, other[1], "RequiresTarget", property),
                       SettingRelation(other[1], path, "RequiredByTarget", property) >>)

processFunction(definitions, path, property, relations) ==
    processFunctionFrom(definitions, path, property,
        getUsedSettings(nodeAt(definitions, path).property_values[property]), 1, relations)

\* the loop of _updateRelations over the Function properties from position i on
RECURSIVE updateProperties(_, _, _, _)
updateProperties(definitions, path, i, relations) ==
    LET names == getPropertyNames("Function")
    IN  IF i > Len(names) THEN relations
        ELSE IF HasAttribute(nodeAt(definitions, path), names[i])
        THEN updateProperties(definitions, path, i + 1,
                processFunction(definitions, path, names[i], relations))
        ELSE updateProperties(definitions, path, i + 1, relations)

\* _updateRelations of every definition: a definition before its children, which
\* is the order of the paths
RECURSIVE updateRelationsFrom(_, _, _, _)
updateRelationsFrom(definitions, paths, i, relations) ==
    IF i > Len(paths) THEN relations
    ELSE updateRelationsFrom(definitions, paths, i + 1,
            updateProperties(definitions, paths[i], 1, relations))

updateRelations(definitions, relations) ==
    updateRelationsFrom(definitions, forestPaths(definitions, <<>>, 1), 1, relations)


----------------------------------------------------------------------------
(***************************************************************************)
(* The definition files that Resources finds, and inheritance.             *)
(***************************************************************************)
Setting(label, type, more) ==
    JDict(<< <<"label", JStr(label)>>, <<"type", JStr(type)>>,
             <<"description", JStr("D")>> >> \o more)

BaseDocument ==
    JDict(<< <<"version", JInt("2")>>, <<"name", JStr("Base")>>,
             <<"metadata", JDict(<< <<"author", JStr("A")>> >>)>>,
             <<"settings", JDict(<< <<"a", Setting("A", "int", << <<"default_value", JInt("1")>> >>)>> >>)>> >>)

\* the files under the definition containers' resource directory, parsed
Files ==
    [base |-> BaseDocument,
     old |-> JDict(<< <<"version", JInt("1")>>, <<"name", JStr("Old")>> >>),
     mid |-> JDict(<< <<"version", JInt("2")>>, <<"name", JStr("Mid")>>,
                      <<"inherits", JStr("old")>> >>),
     anon |-> JDict(<< <<"version", JInt("3")>>, <<"metadata", JDict(<<>>)>> >>),
     bare |-> JDict(<< <<"name", JStr("Bare")>>, <<"inherits", JStr("old")>> >>),
     loop |-> JDict(<< <<"version", JInt("2")>>, <<"name", JStr("Loop")>>,
                       <<"inherits", JStr("loop")>> >>)]

\* _loadFile
loadFile(file_name) ==
    IF file_name.t # "str" THEN Raise("TypeError")
    ELSE IF file_name.v \notin DOMAIN Files THEN Raise("FileNotFoundError")
    ELSE Files[file_name.v]

\* parsed = self._mergeDicts(self._resolveInheritance(parsed["inherits"]), parsed)
mergeInherited(inherited, parsed) == Try(inherited, mergeDicts(inherited, parsed))

\* _resolveInheritance; loading is the set of files whose resolution is under way
RECURSIVE resolveInheritance(_, _)
resolveLoaded(file_name, loading, json) ==
    IF IsRaise(json) THEN json
    ELSE IF verifyJson(json) # None THEN Raise(verifyJson(json))
    ELSE IF ~JHas(json, "inherits") THEN json
    ELSE IF file_name.v \in loading THEN Raise(RecursionError)
    ELSE mergeInherited(resolveInheritance(JGet(json, "inherits"),
                                           loading \cup {file_name.v}), json)
resolveInheritance(file_name, loading) ==
    resolveLoaded(file_name, loading, loadFile(file_name))

\* a in b of two strings
IsSubstring(a, b) ==
    \E i \in 1 .. (Len(b) - Len(a) + 1) : SubSeq(b, i, i + Len(a) - 1) = a

\* _findInDict: the dictionary itself when it has the key; the searches in the
\* values are made and their results dropped
RECURSIVE findInDict(_, _), findInValues(_, _)
findInRest(items, key, found) ==
    IF IsRaise(found) THEN found ELSE findInValues(Tail(items), key)
findInValues(items, key) ==
    IF items = <<>> THEN JNone
    ELSE findInRest(items, key, findInDict(Head(items)[2], key))
findInDict(dict, key) ==
    CASE IsDict(dict) -> IF JHas(dict, key) THEN dict ELSE findInValues(dict.v, key)
      [] dict.t = "str" -> IF IsSubstring(key, dict.v) THEN dict ELSE Raise("AttributeError")
      [] OTHER -> Raise("TypeError")

\* setting.update(value)
RECURSIVE updateItems(_, _)
updateItems(setting, items) ==
    IF items = <<>> THEN setting
    ELSE updateItems(JSet(setting, Head(items)[1], Head(items)[2]), Tail(items))
update(setting, value) ==
    CASE ~IsDict(setting) -> Raise("AttributeError")
      [] IsDict(value) -> updateItems(setting, value.v)
      [] value.t = "str" -> IF value.v = "" THEN setting ELSE Raise("ValueError")
      [] OTHER -> Raise("TypeError")

\* the loop over parsed["overrides"]
RECURSIVE applyOverrides(_, _)
applyUpdated(parsed, items, updated) ==
    IF IsRaise(updated) THEN updated
    ELSE applyOverrides(JSet(parsed, "settings", updated), Tail(items))
applyFound(parsed, items, setting) ==
    IF IsRaise(setting) THEN setting
    ELSE applyUpdated(parsed, items, update(setting, Head(items)[2]))
applyOverrides(parsed, items) ==
    IF items = <<>> THEN parsed
    ELSE IF ~JHas(parsed, "settings") THEN Raise("KeyError")
    ELSE applyFound(parsed, items, findInDict(JGet(parsed, "settings"), Head(items)[1]))

----------------------------------------------------------------------------
(***************************************************************************)
(* DefinitionContainer.deserialize.                                        *)
(***************************************************************************)
MaxDefinitions == 2

inherit(parsed) ==
    IF JHas(parsed, "inherits")
    THEN mergeInherited(resolveInheritance(JGet(parsed, "inherits"), {}), parsed)
    ELSE parsed

\* the overrides of parsed applied to its settings
override(parsed) ==
    IF IsRaise(parsed) \/ ~JHas(parsed, "overrides") THEN parsed
    ELSE IF ~IsDict(JGet(parsed, "overrides")) THEN Raise("AttributeError")
    ELSE applyOverrides(parsed, JGet(parsed, "overrides").v)

\* without metadata or settings the document is invalid
requireSections(parsed) ==
    IF IsRaise(parsed) THEN parsed
    ELSE IF ~JHas(parsed, "metadata") \/ ~JHas(parsed, "settings")
    THEN Raise("InvalidDefinitionError")
    ELSE parsed

\* the steps of deserialize before the container is touched: the document with
\* inherited data and overrides, or the exception raised
preprocess(parsed) ==
    IF verifyJson(parsed) # None THEN Raise(verifyJson(parsed))
    ELSE requireSections(override(inherit(parsed)))

\* the loop over parsed["settings"]: definitions are appended until one fails
RECURSIVE deserializeSettings(_, _)
appendDefinition(items, definitions, definition) ==
    IF IsRaise(definition) THEN [err |-> definition.v, definitions |-> definitions]
    ELSE deserializeSettings(Tail(items), Append(definitions, definition))
deserializeSettings(items, definitions) ==
    IF items = <<>> THEN [err |-> None, definitions |-> definitions]
    ELSE appendDefinition(items, definitions,
            deserializeDefinition(Head(items)[1], Head(items)[2], NoProperties))

\* the container after the loop over the settings and the relations pass
withDefinitions(named, loaded) ==
    IF loaded.err # None
    THEN [err |-> loaded.err,
          container |-> [named EXCEPT !.definitions = loaded.definitions]]
    ELSE [err |-> None,
          container |->
              [named EXCEPT !.definitions = loaded.definitions,
                            !.relations = updateRelations(loaded.definitions, @)]]

\* the part of deserialize that writes the container
load(container, document) ==
    IF IsRaise(document) THEN [err |-> document.v, container |-> container]
    ELSE IF ~IsDict(JGet(document, "settings"))
    THEN [err |-> "AttributeError",
          container |-> [container EXCEPT !.name = JGet(document, "name"),
                                          !.metadata = JGet(document, "metadata")]]
    ELSE withDefinitions([container EXCEPT !.name = JGet(document, "name"),
                                           !.metadata = JGet(document, "metadata")],
                         deserializeSettings(JGet(document, "settings").v,
                                             container.definitions))

\* deserialize(parsed) on container: the error raised (None when it returns)
\* and the container afterwards
definitionDeserialize(container, parsed) == load(container, preprocess(parsed))

\* the call container.deserialize(document) on the definition container
definitionDeserializeCall(parsed) ==
    LET result == definitionDeserialize(definition_container, parsed)
    IN  /\ definition_container' = result.container
        /\ last' = Call("definitionDeserialize", "d", parsed, None, result.err, None)
        /\ UNCHANGED <<stackVars, values>>
        /\ emitted' = <<>>
        /\ UNCHANGED <<type_definitions, providerVars, toolVars>>

----------------------------------------------------------------------------
(***************************************************************************)
(* SpecDefinition: documents deserialized into one definition container.   *)
(***************************************************************************)
SettingsA ==
    JDict(<< <<"a", Setting("A", "int", << <<"default_value", JInt("1")>> >>)>> >>)
SettingsAB ==
    JDict(<< <<"a", Setting("A", "int", << <<"default_value", JInt("1")>> >>)>>,
             <<"b", Setting("B", "int", << <<"value", JStr("a * 2 + q")>>,
                                           <<"enabled", JStr("b")>> >>)>> >>)
SettingsNested ==
    JDict(<< <<"c", Setting("C", "category",
                << <<"children", JDict(<< <<"a", Setting("A", "int",
                        << <<"minimum_value", JStr("a")>> >>)>> >>)>> >>)>> >>)
\* the second setting lacks its type
SettingsBroken ==
    JDict(<< <<"a", Setting("A", "int", <<>>)>>,
             <<"b", JDict(<< <<"label", JStr("B")>>, <<"description", JStr("D")>> >>)>> >>)

Versions == {JInt("2"), JInt("3"), JStr("2")}
Inherits == {"base", "old", "mid", "anon", "bare", "loop", "none"}

Field(name, present, value) == IF present THEN << <<name, value>> >> ELSE <<>>

\* documents with or without version and name, with each version, with each file
\* named as the base
HeaderDocuments ==
    { JDict(Field("version", hasVersion, version) \o Field("name", hasName, JStr("N"))
            \o Field("inherits", inherits # None, JStr(inherits))
            \o Field("metadata", hasBody, JDict(<<>>))
            \o Field("settings", hasBody, SettingsA)) :
        hasVersion \in BOOLEAN, version \in Versions, hasName \in BOOLEAN,
        inherits \in Inherits \cup {None}, hasBody \in BOOLEAN }

\* documents of the expected version with each body
BodyDocuments ==
    { JDict(<< <<"version", JInt("2")>>, <<"name", JStr("M")>> >>
            \o Field("metadata", hasMetadata, JDict(<< <<"author", JStr("M")>> >>))
            \o Field("settings", settings.t # "none", settings)
            \o Field("overrides", overrides.t # "none", overrides)) :
        hasMetadata \in BOOLEAN,
        settings \in {SettingsA, SettingsAB, SettingsNested, SettingsBroken, JStr("a"),
                      JNone},
        overrides \in {JNone, JDict(<< <<"a", JDict(<< <<"label", JStr("L")>> >>)>> >>),
                       JDict(<< <<"a", JDict(<<>>)>> >>),
                       JDict(<< <<"z", JDict(<<>>)>> >>)} }

DefinitionDocuments == HeaderDocuments \cup BodyDocuments

InitDefinition ==
    /\ InitStacks
    /\ values = [c \in Leaves |-> [k \in Keys |-> None]]

NextDefinition ==
    \E parsed \in DefinitionDocuments :
        /\ Len(definition_container.definitions) < MaxDefinitions
        /\ definitionDeserializeCall(parsed)

SpecDefinition == InitDefinition /\ [][NextDefinition]_vars


----------------------------------------------------------------------------
(***************************************************************************)
(* Claims about DefinitionContainer.deserialize, checked under             *)
(* SpecDefinition.                                                         *)
(***************************************************************************)
\* a document and the base documents its inherits entries lead to, in order
RECURSIVE inheritsChain(_, _)
inheritsChain(document, more) ==
    IF more = 0 \/ ~JHas(document, "inherits")
       \/ JGet(document, "inherits").v \notin DOMAIN Files
    THEN <<document>>
    ELSE <<document>> \o inheritsChain(Files[JGet(document, "inherits").v], more - 1)

ChainOf(document) == inheritsChain(document, Cardinality(DOMAIN Files))

ExpectedVersion == JInt(ToString(DefinitionVersion))
VersionDiffers(document) ==
    JHas(document, "version") /\ JGet(document, "version") # ExpectedVersion
Verifies(document) ==
    /\ JHas(document, "version") /\ JHas(document, "name")
    /\ JGet(document, "version") = ExpectedVersion

\* C9 as stated: deserialize of a document whose version differs from the
\* expected one, or whose inherits chain contains a base document with a differing
\* version, fails with IncorrectDefinitionVersionError and leaves the container's
\* name, metadata and definitions as they were.
C9_VersionDiffersFails ==
    [][LET chain == ChainOf(last'.arg)
       IN  (/\ last'.op = "definitionDeserialize"
            /\ \E i \in 1 .. Len(chain) : VersionDiffers(chain[i]))
            => (/\ last'.err = "IncorrectDefinitionVersionError"
                /\ UNCHANGED definition_container)]_vars

\* C9 amended: when the first document of the chain (the document itself, then
\* base after base) that is not a document of the expected version with a name
\* carries a name and a differing version, deserialize fails with
\* IncorrectDefinitionVersionError and leaves the container's name, metadata and
\* definitions as they were.
C9_NamedVersionDiffersFails ==
    [][LET chain == ChainOf(last'.arg)
       IN  (/\ last'.op = "definitionDeserialize"
            /\ \E i \in 1 .. Len(chain) :
                /\ \A j \in 1 .. (i - 1) : Verifies(chain[j])
                /\ JHas(chain[i], "name")
                /\ VersionDiffers(chain[i]))
            => (/\ last'.err = "IncorrectDefinitionVersionError"
                /\ UNCHANGED definition_container)]_vars

\* a populated container refused a document whose base's base is of another version
C9_Witness ==
    /\ last.op = "definitionDeserialize"
    /\ last.err = "IncorrectDefinitionVersionError"
    /\ Verifies(last.arg)
    /\ Len(ChainOf(last.arg)) = 3
    /\ VersionDiffers(ChainOf(last.arg)[3])
    /\ Len(definition_container.definitions) > 0
    /\ definition_container.name # JGet(last.arg, "name")


\* C12: when deserialize fails part-way (a root setting misses a required
\* property or declares an unknown type, or the metadata or settings section is
\* missing), the container holds none of the definitions of that parse and its
\* name and metadata are unchanged.
C12_FailedParseLeavesContainer ==
    [][(/\ last'.op = "definitionDeserialize"
        /\ last'.err \in {"AttributeError", "ValueError", "InvalidDefinitionError"}
        /\ JHas(last'.arg, "settings") => IsDict(JGet(last'.arg, "settings")))
        => UNCHANGED definition_container]_vars

\* the number of times relation occurs among relations
CountRelation(relations, relation) ==
    Cardinality({i \in 1 .. Len(relations) : relations[i] = relation})

MirrorType(type) == IF type = "RequiresTarget" THEN "RequiredByTarget" ELSE "RequiresTarget"

\* the definitions a Function property of the definition at path uses: the
\* first definition found for each used key that resolves
UsedDefinitions(definitions, path, property) ==
    LET used == getUsedSettings(nodeAt(definitions, path).property_values[property])
    IN  { findDefinitions(definitions, << <<"key", JStr(used[i])>> >>)[1] :
            i \in { j \in 1 .. Len(used) :
                      findDefinitions(definitions, << <<"key", JStr(used[j])>> >>) # <<>> } }

FunctionProperties(definitions, path) ==
    { name \in DOMAIN nodeAt(definitions, path).property_values :
        PropertyType(name) = "Function" }

RelationsPaired(container) ==
    LET definitions == container.definitions
        relations == container.relations
        paths == forestPaths(definitions, <<>>, 1)
    IN  /\ \A i \in 1 .. Len(paths) :
            \A property \in FunctionProperties(definitions, paths[i]) :
                \A other \in UsedDefinitions(definitions, paths[i], property) :
                    /\ CountRelation(relations,
                         SettingRelation(paths[i], other, "RequiresTarget", property)) = 1
                    /\ CountRelation(relations,
                         SettingRelation(other, paths[i], "RequiredByTarget", property)) = 1
        /\ \A i \in 1 .. Len(relations) :
            /\ CountRelation(relations,
                 SettingRelation(relations[i].target, relations[i].owner,
                                 MirrorType(relations[i].type), relations[i].role)) >= 1
            /\ relations[i].type = "RequiresTarget" =>
                /\ relations[i].role \in FunctionProperties(definitions, relations[i].owner)
                /\ relations[i].target \in
                     UsedDefinitions(definitions, relations[i].owner, relations[i].role)

\* C16: after DefinitionContainer.deserialize, for every definition B, every
\* Function property p present on B and every key used by it that resolves to a
\* definition A, B has exactly one RequiresTarget relation to A with role p and A
\* exactly one RequiredByTarget relation to B with role p; every relation has its
\* mirror, and a used key that resolves to no definition gives no relation.
C16_RelationsPairedOnce ==
    [][(last'.op = "definitionDeserialize" /\ last'.err = None) =>
        RelationsPaired(definition_container')]_vars

\* the settings with the fields of each override merged into the sub-document
\* of the setting the override names
RECURSIVE OverriddenSettings(_, _)
OverriddenSettings(settings, items) ==
    IF items = <<>> THEN settings
    ELSE OverriddenSettings(
            JSet(settings, Head(items)[1],
                 update(JGet(settings, Head(items)[1]), Head(items)[2])),
            Tail(items))

\* the document has overrides, each for a top-level key of its settings
OverridesTopLevel(document) ==
    /\ Verifies(document) /\ ~JHas(document, "inherits")
    /\ JHas(document, "metadata") /\ JHas(document, "settings")
    /\ JHas(document, "overrides")
    /\ IsDict(JGet(document, "settings")) /\ IsDict(JGet(document, "overrides"))
    /\ JGet(document, "overrides").v # <<>>
    /\ \A i \in 1 .. Len(JGet(document, "overrides").v) :
        /\ JHas(JGet(document, "settings"), JGet(document, "overrides").v[i][1])
        /\ IsDict(JGet(document, "overrides").v[i][2])

\* C19: for a document with overrides {k: fields}, k a top-level key of
\* settings, deserialize merges fields into the sub-document of setting k: the
\* definition with key k carries the override's property values, and no other
\* setting nor the set of keys of settings is changed, so the container is as
\* after loading the document with the fields written into settings[k].
C19_OverridesMergedIntoSetting ==
    [][(last'.op = "definitionDeserialize" /\ OverridesTopLevel(last'.arg)) =>
        /\ definition_container' =
            load(definition_container,
                 JSet(last'.arg, "settings",
                      OverriddenSettings(JGet(last'.arg, "settings"),
                                         JGet(last'.arg, "overrides").v))).container
        /\ last'.err =
            load(definition_container,
                 JSet(last'.arg, "settings",
                      OverriddenSettings(JGet(last'.arg, "settings"),
                                         JGet(last'.arg, "overrides").v))).err
      ]_vars

\* C20: deserialize of a document with valid version and name that lacks the
\* metadata key or the settings key fails with InvalidDefinitionError, also when
\* the document carries an overrides section.
C20_MissingSectionInvalid ==
    [][(/\ last'.op = "definitionDeserialize"
        /\ Verifies(last'.arg) /\ ~JHas(last'.arg, "inherits")
        /\ ~JHas(last'.arg, "metadata") \/ ~JHas(last'.arg, "settings")
        /\ JHas(last'.arg, "settings") => IsDict(JGet(last'.arg, "settings")))
        => last'.err = "InvalidDefinitionError"]_vars

\* C21: a deserialize call on a container that already holds the definitions
\* of an earlier successful deserialize fails, and the definitions, name and
\* metadata of the first parse are unchanged.
C21_BuiltOnce ==
    [][(/\ last.op = "definitionDeserialize" /\ last.err = None
        /\ definition_container.definitions # <<>>
        /\ last'.op = "definitionDeserialize")
        => (last'.err # None /\ UNCHANGED definition_container)]_vars

----------------------------------------------------------------------------
(***************************************************************************)
(* SpecSetting: setting documents deserialized into a new                  *)
(* SettingDefinition.                                                      *)
(***************************************************************************)
\* SettingDefinition(key).deserialize(serialized): the definition afterwards
\* or the exception raised
settingDeserialize(key, serialized) == deserializeDefinition(key, serialized, NoProperties)

\* the call on a definition made for it
settingDeserializeCall(key, serialized) ==
    LET result == settingDeserialize(key, serialized)
    IN  /\ last' = Call("settingDeserialize", key, serialized, None,
                        IF IsRaise(result) THEN result.v ELSE None, result)
        /\ UNCHANGED <<stackVars, values, definition_container>>
        /\ emitted' = <<>>
        /\ UNCHANGED <<type_definitions, providerVars, toolVars>>

SettingTypes == {"int", "nope"}

\* the documents of one setting with the given children: each required property
\* present or not, the type registered or not, the children before or after
\* the properties
SettingDocumentsWith(label, childKey, childDocuments, descriptions, orders) ==
    { JDict(Field("children", child.t # "none" /\ childrenFirst,
                  JDict(<< <<childKey, child>> >>))
            \o Field("label", hasLabel, JStr(label))
            \o Field("type", type # None, JStr(type))
            \o Field("description", hasDescription, JStr("D"))
            \o Field("children", child.t # "none" /\ ~childrenFirst,
                     JDict(<< <<childKey, child>> >>))) :
        hasLabel \in BOOLEAN, type \in SettingTypes \cup {None},
        hasDescription \in descriptions, childrenFirst \in orders,
        child \in childDocuments \cup {JNone} }

GrandchildDocuments ==
    { Setting("G", "int", <<>>),
      JDict(<< <<"label", JStr("G")>>, <<"type", JStr("int")>> >>) }
ChildDocuments ==
    { d \in SettingDocumentsWith("C", "g", GrandchildDocuments, {TRUE}, {FALSE}) :
        JHas(d, "children") => (JHas(d, "label") /\ JHas(d, "type")) }
SettingDocuments == SettingDocumentsWith("S", "c", ChildDocuments, BOOLEAN, BOOLEAN)

NextSetting == \E serialized \in SettingDocuments : settingDeserializeCall("s", serialized)

SpecSetting == InitDefinition /\ [][NextSetting]_vars

\* the settings of a document: the setting itself and every setting nested
\* under its children, each as <<key, document>>
RECURSIVE settingsOf(_, _), settingsOfChildren(_)
settingsOfChildren(items) ==
    IF items = <<>> THEN <<>>
    ELSE settingsOf(Head(items)[1], Head(items)[2]) \o settingsOfChildren(Tail(items))
settingsOf(key, document) ==
    << <<key, document>> >> \o
    (IF JHas(document, "children") THEN settingsOfChildren(JGet(document, "children").v)
     ELSE <<>>)

RequiredProperties == {"label", "type", "description"}

\* some required property is absent from the document of the setting or of a
\* setting nested under it
RequiredAbsent(key, document) ==
    \E i \in 1 .. Len(settingsOf(key, document)) :
        \E property \in RequiredProperties : ~JHas(settingsOf(key, document)[i][2], property)

\* every type the setting or a setting nested under it declares is registered
TypesRegistered(key, document) ==
    \A i \in 1 .. Len(settingsOf(key, document)) :
        JHas(settingsOf(key, document)[i][2], "type") =>
            JGet(settingsOf(key, document)[i][2], "type").v \in TypeNames

\* the exception is the missing-required-property error and names a setting of
\* the document and a required property that setting lacks
MissingRequiredError(key, document, raised) ==
    /\ IsRaise(raised) /\ raised.v = "AttributeError" /\ Len(raised.about) = 2
    /\ raised.about[2] \in RequiredProperties
    /\ \E i \in 1 .. Len(settingsOf(key, document)) :
        /\ settingsOf(key, document)[i][1] = raised.about[1]
        /\ ~JHas(settingsOf(key, document)[i][2], raised.about[2])

\* C15 as stated: deserializing a fresh SettingDefinition fails with the
\* missing-required-property error, naming the setting key and the property,
\* if and only if a required property is absent from the document of the
\* setting or of a setting nested under its children; a document whose settings
\* all carry the required properties with registered types succeeds.
C15_MissingRequiredIff ==
    [][last'.op = "settingDeserialize" =>
        /\ MissingRequiredError(last'.self, last'.arg, last'.ret)
            <=> RequiredAbsent(last'.self, last'.arg)
        /\ (~RequiredAbsent(last'.self, last'.arg) /\ TypesRegistered(last'.self, last'.arg))
            => last'.err = None
      ]_vars

\* C15 amended: for a document whose settings declare only registered types,
\* deserializing a fresh SettingDefinition fails with the
\* missing-required-property error, naming the setting key and the property,
\* if and only if a required property is absent from the document of the
\* setting or of a setting nested under its children, and succeeds otherwise.
C15_RegisteredMissingRequiredIff ==
    [][(last'.op = "settingDeserialize" /\ TypesRegistered(last'.self, last'.arg)) =>
        /\ MissingRequiredError(last'.self, last'.arg, last'.ret)
            <=> RequiredAbsent(last'.self, last'.arg)
        /\ ~RequiredAbsent(last'.self, last'.arg) => last'.err = None
      ]_vars

\* a setting with every required property failed on the description its
\* grandchild lacks
C15_Witness ==
    /\ last.op = "settingDeserialize"
    /\ TypesRegistered(last.self, last.arg)
    /\ \A property \in RequiredProperties : JHas(last.arg, property)
    /\ last.err = "AttributeError"
    /\ last.ret.about = <<"g", "description">>

----------------------------------------------------------------------------
(***************************************************************************)
(* SpecMerge: _mergeDicts applied to pairs of documents.                   *)
(***************************************************************************)
\* the call self._mergeDicts(first, second)
mergeDictsCall(first, second) ==
    LET result == mergeDicts(first, second)
    IN  /\ last' = Call("mergeDicts", "d", <<first, second>>, None,
                        IF IsRaise(result) THEN result.v ELSE None, result)
        /\ UNCHANGED <<stackVars, values, definition_container>>
        /\ emitted' = <<>>
        /\ UNCHANGED <<type_definitions, providerVars, toolVars>>

\* the values under a key: scalars and mappings, nested up to two deep
MergeValues ==
    { JInt("1"), JStr("x"), JDict(<<>>), JDict(<< <<"k", JInt("1")>> >>),
      JDict(<< <<"k", JStr("x")>>, <<"l", JDict(<< <<"m", JInt("1")>> >>)>> >>) }

\* documents with a key "a", or without, and with a scalar "b", or without
MergeDocuments ==
    { JDict(Field("a", a.t # "none", a) \o Field("b", hasB, JInt("2"))) :
        a \in MergeValues \cup {JNone}, hasB \in BOOLEAN }

NextMerge == \E first \in MergeDocuments, second \in MergeDocuments : mergeDictsCall(first, second)

SpecMerge == InitDefinition /\ [][NextMerge]_vars

\* C17: merging a document of nested mappings with scalar leaves with itself,
\* as base and as derived, returns a document equal to it.
C17_MergeIdempotent ==
    [][(last'.op = "mergeDicts" /\ last'.arg[1] = last'.arg[2]) =>
        last'.ret = last'.arg[1]]_vars

\* a document with a mapping nested in a mapping was merged with itself
C17_Witness ==
    /\ last.op = "mergeDicts"
    /\ last.arg[1] = last.arg[2]
    /\ JHas(last.arg[1], "a") /\ IsDict(JGet(last.arg[1], "a"))
    /\ JHas(JGet(last.arg[1], "a"), "l") /\ JHas(last.arg[1], "b")
    /\ last.ret = last.arg[1]

JKeys(dict) == {dict.v[i][1] : i \in 1 .. Len(dict.v)}

\* result is the deep merge of base and derived: under each key of derived the
\* merge of both values when both are mappings and the derived value otherwise,
\* under each other key of base the base value
RECURSIVE IsDeepMerge(_, _, _)
IsDeepMerge(base, derived, result) ==
    /\ IsDict(result)
    /\ JKeys(result) = JKeys(base) \cup JKeys(derived)
    /\ \A key \in JKeys(derived) :
        IF JHas(base, key) /\ IsDict(JGet(base, key)) /\ IsDict(JGet(derived, key))
        THEN IsDeepMerge(JGet(base, key), JGet(derived, key), JGet(result, key))
        ELSE JGet(result, key) = JGet(derived, key)
    /\ \A key \in JKeys(base) \ JKeys(derived) : JGet(result, key) = JGet(base, key)

\* C18: the merge of a base and a derived document holds, for each key of the
\* derived document, the recursive merge of both values when both are mappings
\* and the derived value in every other case, and the base value for the keys
\* only in the base; a derived mapping over a base scalar overwrites it without
\* error.
C18_DeepMerge ==
    [][last'.op = "mergeDicts" =>
        /\ last'.err = None
        /\ IsDeepMerge(last'.arg[1], last'.arg[2], last'.ret)]_vars

----------------------------------------------------------------------------
(***************************************************************************)
(* SpecTypes: the setting types and the conversion of values from and to   *)
(* strings.                                                                *)
(***************************************************************************)
\* ast.literal_eval of the texts that occur: a numeral is a number, any other
\* of them is no literal
literalEval(value) ==
    IF value.t # "str" THEN Raise("ValueError")
    ELSE IF IsNumeralText(value.v) THEN JInt(value.v)
    ELSE Raise("ValueError")

RECURSIVE replaceComma(_)
replaceComma(text) ==
    IF text = "" THEN ""
    ELSE (IF SubSeq(text, 1, 1) = "," THEN "." ELSE SubSeq(text, 1, 1))
         \o replaceComma(SubSeq(text, 2, Len(text)))

\* convert_function(value): the converters of __type_definitions as the code
\* defines them; a function given to addSettingType is known by its name, and
\* its result is the application of that name to the value
applyConverter(convert_function, value) ==
    CASE convert_function = "str" -> PyStr(value)
      [] convert_function = "literal_eval" -> literalEval(value)
      [] convert_function = "literal_eval_comma" ->
            IF value.t # "str" THEN Raise("AttributeError")
            ELSE literalEval(JStr(replaceComma(value.v)))
      [] OTHER -> [t |-> "applied", v |-> value, function |-> convert_function]

\* SettingDefinition.addSettingType
addSettingType(definitions, type_name, from_string, to_string) ==
    [name \in DOMAIN definitions \cup {type_name} |->
        IF name = type_name THEN [from |-> from_string, to |-> to_string]
        ELSE definitions[name]]

\* SettingDefinition.settingValueFromString
settingValueFromString(definitions, type_name, string_value) ==
    IF type_name \notin DOMAIN definitions THEN Raise("ValueError")
    ELSE IF definitions[type_name].to # None
    THEN applyConverter(definitions[type_name].to, string_value)
    ELSE string_value

\* SettingDefinition.settingValueToString
settingValueToString(definitions, type_name, value) ==
    IF type_name \notin DOMAIN definitions THEN Raise("ValueError")
    ELSE IF definitions[type_name].from # None
    THEN applyConverter(definitions[type_name].from, value)
    ELSE value

typesFrame ==
    /\ UNCHANGED <<stackVars, values, definition_container, providerVars, toolVars>>
    /\ emitted' = <<>>

addSettingTypeCall(type_name, from_string, to_string) ==
    /\ type_definitions' = addSettingType(type_definitions, type_name, from_string, to_string)
    /\ last' = Call("addSettingType", "SettingDefinition", <<type_name, from_string, to_string>>, None,
                    None, None)
    /\ typesFrame

settingValueFromStringCall(type_name, string_value) ==
    LET result == settingValueFromString(type_definitions, type_name, string_value)
    IN  /\ last' = Call("settingValueFromString", "SettingDefinition", <<type_name, string_value>>, None,
                        IF IsRaise(result) THEN result.v ELSE None, result)
        /\ UNCHANGED type_definitions
        /\ typesFrame

settingValueToStringCall(type_name, value) ==
    LET result == settingValueToString(type_definitions, type_name, value)
    IN  /\ last' = Call("settingValueToString", "SettingDefinition", <<type_name, value>>, None,
                        IF IsRaise(result) THEN result.v ELSE None, result)
        /\ UNCHANGED type_definitions
        /\ typesFrame

\* the types registered, the functions given for them, the types converted with
\* and the values converted
NewTypes == {"t1", "t2"}
ConvertFunctions == {"f", "g"}
ConvertedTypes == NewTypes \cup {"int", "str"}
ConvertedValues == {JStr("1"), JStr("x"), JInt("1")}

NextTypes ==
    \/ \E type_name \in NewTypes, from_string, to_string \in ConvertFunctions \cup {None} :
        addSettingTypeCall(type_name, from_string, to_string)
    \/ \E type_name \in ConvertedTypes, string_value \in ConvertedValues :
        settingValueFromStringCall(type_name, string_value)
    \/ \E type_name \in ConvertedTypes, value \in ConvertedValues :
        settingValueToStringCall(type_name, value)

SpecTypes == InitDefinition /\ [][NextTypes]_vars

\* C22: right after addSettingType(name, from_string, to_string),
\* settingValueFromString(name, s) returns from_string(s), or s when from_string
\* is absent, and settingValueToString(name, v) returns to_string(v), or v when
\* to_string is absent; for a name that is not registered both conversions fail
\* with ValueError.
C22_RegisteredConverters ==
    [][/\ (/\ last.op = "addSettingType"
           /\ last'.op = "settingValueFromString" /\ last'.arg[1] = last.arg[1])
          => last'.ret = IF last.arg[2] = None THEN last'.arg[2]
                         ELSE applyConverter(last.arg[2], last'.arg[2])
       /\ (/\ last.op = "addSettingType"
           /\ last'.op = "settingValueToString" /\ last'.arg[1] = last.arg[1])
          => last'.ret = IF last.arg[3] = None THEN last'.arg[2]
                         ELSE applyConverter(last.arg[3], last'.arg[2])
       /\ (/\ last'.op \in {"settingValueFromString", "settingValueToString"}
           /\ last'.arg[1] \notin DOMAIN type_definitions)
          => last'.err = "ValueError"
      ]_vars

----------------------------------------------------------------------------
(***************************************************************************)
(* SpecQuery: a definition container is loaded and its definitions are     *)
(* searched, read and assigned to.                                         *)
(***************************************************************************)
\* SettingDefinition.findDefinitions(**criteria) of the definition at path, as
\* paths: the definition itself when it matches, then what its children find
RECURSIVE settingFindDefinitions(_, _, _), childrenFindDefinitions(_, _, _, _)
\* the children asked before the definition itself
settingFindDefinitionsChildrenFirst(definition, path, criteria) ==
    childrenFindDefinitions(definition.children, path, criteria, 1)
    \o (IF Matches(definition, criteria) THEN <<path>> ELSE <<>>)
settingFindDefinitions(definition, path, criteria) ==
    (IF Matches(definition, criteria) THEN <<path>> ELSE <<>>)
    \o childrenFindDefinitions(definition.children, path, criteria, 1)
childrenFindDefinitions(children, path, criteria, i) ==
    IF i > Len(children) THEN <<>>
    ELSE settingFindDefinitions(children[i], Append(path, i), criteria)
         \o childrenFindDefinitions(children, path, criteria, i + 1)

\* SettingDefinition.getChild(key) of the definition at path: the path of the
\* first child with the key, None when there is none
RECURSIVE getChildFrom(_, _, _, _)
getChildFrom(children, path, key, i) ==
    IF i > Len(children) THEN None
    ELSE IF children[i].key = key THEN Append(path, i)
    ELSE getChildFrom(children, path, key, i + 1)
getChild(definition, path, key) == getChildFrom(definition.children, path, key, 1)

\* DefinitionContainer.getValue(key), returning the last definition found
\* definitions[0].default_value: AttributeError when the definition has none
firstDefaultValue(definition) ==
    IF HasAttribute(definition, "default_value")
    THEN GetAttribute(definition, "default_value")
    ELSE Raise("AttributeError")

\* DefinitionContainer.getValue(key), taking the last definition found
definitionGetValueOfLast(container, key) ==
    IF findDefinitions(container.definitions, << <<"key", JStr(key)>> >>) = <<>> THEN JNone
    ELSE firstDefaultValue(
            nodeAt(container.definitions,
                   findDefinitions(container.definitions, << <<"key", JStr(key)>> >>)[
                       Len(findDefinitions(container.definitions,
                                           << <<"key", JStr(key)>> >>))]))

\* DefinitionContainer.getValue(key)
definitionGetValue(container, key) ==
    IF findDefinitions(container.definitions, << <<"key", JStr(key)>> >>) = <<>> THEN JNone
    ELSE firstDefaultValue(
            nodeAt(container.definitions,
                   findDefinitions(container.definitions, << <<"key", JStr(key)>> >>)[1]))

\* setattr that stores the value as the property
setattrStores(definition, name, value) ==
    [err |-> None,
     definition |-> [definition EXCEPT !.property_values = PropertySet(@, name, value)]]

\* SettingDefinition.__setattr__(name, value) for the name of a supported
\* property or of the key: the exception raised and the definition afterwards
setattr(definition, name, value) ==
    IF hasProperty(name) THEN [err |-> "NotImplementedError", definition |-> definition]
    ELSE [err |-> "AttributeError", definition |-> definition]

\* definitions with the definition at path replaced
RECURSIVE replaceAt(_, _, _)
replaceAt(definitions, path, definition) ==
    IF Len(path) = 1 THEN [definitions EXCEPT ![path[1]] = definition]
    ELSE [definitions EXCEPT
            ![path[1]] = [@ EXCEPT !.children = replaceAt(@, Tail(path), definition)]]

queryFrame ==
    /\ UNCHANGED <<stackVars, values, type_definitions, providerVars, toolVars>>
    /\ emitted' = <<>>

settingFindDefinitionsCall(path, criteria) ==
    /\ last' = Call("findDefinitions", "d", <<path, criteria>>, None, None,
                    settingFindDefinitions(nodeAt(definition_container.definitions, path),
                                           path, criteria))
    /\ UNCHANGED definition_container
    /\ queryFrame

containerFindDefinitionsCall(criteria) ==
    /\ last' = Call("findDefinitions", "d", <<<<>>, criteria>>, None, None,
                    findDefinitions(definition_container.definitions, criteria))
    /\ UNCHANGED definition_container
    /\ queryFrame

getChildCall(path, key) ==
    /\ last' = Call("getChild", "d", <<path, key>>, None, None,
                    getChild(nodeAt(definition_container.definitions, path), path, key))
    /\ UNCHANGED definition_container
    /\ queryFrame

definitionGetValueCall(key) ==
    LET result == definitionGetValue(definition_container, key)
    IN  /\ last' = Call("definitionGetValue", "d", key, None,
                        IF IsRaise(result) THEN result.v ELSE None, result)
        /\ UNCHANGED definition_container
        /\ queryFrame

setattrCall(path, name, value) ==
    LET result == setattr(nodeAt(definition_container.definitions, path), name, value)
    IN  /\ definition_container' =
            [definition_container EXCEPT
                !.definitions = replaceAt(@, path, result.definition)]
        /\ last' = Call("setattr", "d", <<path, name, value>>, None, result.err, None)
        /\ queryFrame

\* a tree with the keys a and c at two places and a definition without default
SettingsTree ==
    JDict(<< <<"c", Setting("C", "category",
                << <<"default_value", JInt("2")>>,
                   <<"children", JDict(<<
                        <<"a", Setting("A", "int",
                            << <<"children", JDict(<<
                                  <<"b", Setting("B", "int",
                                        << <<"default_value", JInt("1")>> >>)>> >>)>> >>)>>,
                        <<"c", Setting("A", "int",
                            << <<"default_value", JInt("5")>> >>)>> >>)>> >>)>> >>)

QueryDocuments ==
    { JDict(<< <<"version", JInt("2")>>, <<"name", JStr("Q")>>,
               <<"metadata", JDict(<<>>)>>, <<"settings", settings>> >>) :
        settings \in {SettingsA, SettingsAB, SettingsNested, SettingsTree} }

QueryKeys == {"a", "b", "c", "z"}
Criteria ==
    { <<>>, << <<"key", JStr("a")>> >>, << <<"key", JStr("c")>> >>,
      << <<"key", JStr("z")>> >>, << <<"type", JStr("int")>> >>,
      << <<"default_value", JInt("1")>> >>,
      << <<"label", JStr("A")>>, <<"type", JStr("int")>> >>,
      << <<"key", JStr("a")>>, <<"default_value", JInt("1")>> >> }
AssignedNames == {"label", "default_value", "enabled", "key"}

DefinitionPaths ==
    {forestPaths(definition_container.definitions, <<>>, 1)[i] :
        i \in 1 .. Len(forestPaths(definition_container.definitions, <<>>, 1))}

NextQuery ==
    \/ \E parsed \in QueryDocuments :
        /\ Len(definition_container.definitions) < MaxDefinitions
        /\ definitionDeserializeCall(parsed)
    \/ \E path \in DefinitionPaths, criteria \in Criteria :
        settingFindDefinitionsCall(path, criteria)
    \/ \E criteria \in Criteria : containerFindDefinitionsCall(criteria)
    \/ \E path \in DefinitionPaths, key \in QueryKeys : getChildCall(path, key)
    \/ \E key \in QueryKeys : definitionGetValueCall(key)
    \/ \E path \in DefinitionPaths, name \in AssignedNames :
        setattrCall(path, name, JInt("9"))

SpecQuery == InitDefinition /\ [][NextQuery]_vars

\* C23: once a definition is deserialized, assigning to a supported property
\* name fails and leaves the value unchanged, and findDefinitions, getChild,
\* DefinitionContainer.getValue and the relation building of a later load leave
\* every property value of every definition unchanged.
C23_PropertyValuesNeverChange ==
    [][/\ (last'.op = "setattr" /\ hasProperty(last'.arg[2])) =>
            /\ last'.err = "NotImplementedError"
            /\ definition_container'.definitions = definition_container.definitions
       /\ last'.op \in {"setattr", "findDefinitions", "getChild", "definitionGetValue"} =>
            definition_container'.definitions = definition_container.definitions
       /\ last'.op = "definitionDeserialize" =>
            SubSeq(definition_container'.definitions, 1,
                   Len(definition_container.definitions))
                = definition_container.definitions
      ]_vars

\* a present property of a nested definition was assigned to, after relations
\* were built
C23_Witness ==
    /\ last.op = "setattr"
    /\ Len(last.arg[1]) > 1
    /\ last.arg[2] \in
        DOMAIN nodeAt(definition_container.definitions, last.arg[1]).property_values
    /\ nodeAt(definition_container.definitions, last.arg[1]).property_values[last.arg[2]]
        # last.arg[3]
    /\ last.err = "NotImplementedError"
    /\ definition_container.relations # <<>>

\* path p comes before path q in depth-first pre-order: a definition before its
\* children, children in document order
RECURSIVE PathBefore(_, _)
PathBefore(p, q) ==
    IF p = <<>> THEN q # <<>>
    ELSE IF q = <<>> THEN FALSE
    ELSE IF p[1] # q[1] THEN p[1] < q[1]
    ELSE PathBefore(Tail(p), Tail(q))

\* q is p or the path of a descendant of p
InSubtree(p, q) == Len(q) >= Len(p) /\ SubSeq(q, 1, Len(p)) = p

\* the definition carries the value under the name
Carries(definition, name, value) ==
    IF name = "key" THEN value = JStr(definition.key)
    ELSE /\ name \in DOMAIN definition.property_values
         /\ definition.property_values[name] = value

\* C24: findDefinitions(criteria) on a definition returns exactly the nodes of
\* its subtree whose property values equal every given (name, value) pair, each
\* node once, in depth-first pre-order; a node that lacks a named property is
\* excluded without error, and with no criteria every node of the subtree is
\* returned.  (On the container the subtrees are those of all root definitions.)
C24_FindDefinitions ==
    [][last'.op = "findDefinitions" =>
        /\ last'.err = None
        /\ \A i, j \in 1 .. Len(last'.ret) : i < j => PathBefore(last'.ret[i], last'.ret[j])
        /\ {last'.ret[i] : i \in 1 .. Len(last'.ret)} =
            { path \in DefinitionPaths :
                /\ InSubtree(last'.arg[1], path)
                /\ \A i \in 1 .. Len(last'.arg[2]) :
                    Carries(nodeAt(definition_container.definitions, path),
                            last'.arg[2][i][1], last'.arg[2][i][2]) }
      ]_vars

\* a search from a root definition found the one matching node of its subtree,
\* two levels down, and left out the nodes that lack the property or carry
\* another value and a matching node under the other root
C24_Witness ==
    /\ last.op = "findDefinitions"
    /\ Len(last.arg[1]) = 1
    /\ last.arg[2] = << <<"default_value", JInt("1")>> >>
    /\ Len(last.ret) = 1 /\ Len(last.ret[1]) = 3
    /\ Len(definition_container.definitions) = 2
    /\ \E path \in DefinitionPaths :
        /\ ~InSubtree(last.arg[1], path)
        /\ Carries(nodeAt(definition_container.definitions, path), "default_value", JInt("1"))

\* C25: DefinitionContainer.getValue(key) returns the default_value of the
\* first definition, in depth-first document order over the roots, whose key is
\* key, and None when no definition has that key.
C25_FirstDefaultValue ==
    [][last'.op = "definitionGetValue" =>
        LET matching == { path \in DefinitionPaths :
                            nodeAt(definition_container.definitions, path).key = last'.arg }
        IN  /\ matching = {} => (last'.err = None /\ last'.ret = JNone)
            /\ \A first \in matching :
                (/\ \A other \in matching \ {first} : PathBefore(first, other)
                 /\ "default_value" \in
                        DOMAIN nodeAt(definition_container.definitions, first).property_values)
                => /\ last'.err = None
                   /\ last'.ret = nodeAt(definition_container.definitions,
                                         first).property_values["default_value"]
      ]_vars

\* the key is that of two definitions with different default values
C25_Witness ==
    /\ last.op = "definitionGetValue"
    /\ last.arg = "c"
    /\ last.ret = JInt("2")
    /\ \E path \in DefinitionPaths :
        /\ nodeAt(definition_container.definitions, path).key = "c"
        /\ Carries(nodeAt(definition_container.definitions, path), "default_value", JInt("5"))

-----------------------------------------------------------------------------
(***************************************************************************)
(* SettingPropertyProvider: the values of the watched properties of one    *)
(* setting key, read from a container stack.  The provider is translated   *)
(* from its source; what it calls on the stack and on the containers       *)
(* beyond getContainers and getContainer (getProperty, setProperty,        *)
(* getContainerIndex, the global stack, the two signals it connects to) is *)
(* not part of the classes above and is modelled from its description.     *)
(***************************************************************************)

\* the stack id that selects the global stack
GlobalId == <<"g", "l", "o", "b", "a", "l">>

\* UM.Application.getInstance().getGlobalContainerStack()
getGlobalContainerStack == "T"

ProviderRelation(type, target, role) == [type |-> type, target |-> target, role |-> role]

\* the relations of the setting definitions of d1, by key
SettingRelations ==
    [k1 |-> << ProviderRelation("RequiredByTarget", "k2", "value"),
               ProviderRelation("RequiredByTarget", "k3", "enabled"),
               ProviderRelation("RequiresTarget", "k4", "value") >>,
     k2 |-> << ProviderRelation("RequiredByTarget", "k3", "value") >>]

\* container.getProperty(key, property_name): None when not found
containerGetProperty(store, container, key, property_name) ==
    IF property_name = "relations"
    THEN IF container \in DefinitionContainers /\ key \in DOMAIN SettingRelations
         THEN [t |-> "list", v |-> SettingRelations[key]]
         ELSE JNone
    ELSE IF <<key, property_name>> \in DOMAIN store[container]
    THEN store[container][<<key, property_name>>]
    ELSE JNone

\* container.setProperty(key, property_name, property_value, stack)
setProperty(store, container, key, property_name, property_value) ==
    [store EXCEPT ![container] =
        [entry \in DOMAIN store[container] \cup {<<key, property_name>>} |->
            IF entry = <<key, property_name>> THEN property_value
            ELSE store[container][entry]]]

\* stack.getProperty(key, property_name): the answer of the first container
\* of the list that has one, None when none has
RECURSIVE stackGetProperty(_, _, _, _)
stackGetProperty(store, list, key, property_name) ==
    IF list = <<>> THEN JNone
    ELSE IF containerGetProperty(store, Head(list), key, property_name) # JNone
    THEN containerGetProperty(store, Head(list), key, property_name)
    ELSE stackGetProperty(store, Tail(list), key, property_name)

\* stack.getContainerIndex(container): the index of the container in the list
getContainerIndex(list, container) ==
    (CHOOSE pos \in 1 .. Len(list) :
        /\ list[pos] = container
        /\ \A before \in 1 .. pos - 1 : list[before] # container) - 1

\* the loop of _updateStackLevels over the containers from position pos on
RECURSIVE stackLevelsFrom(_, _, _, _)
stackLevelsFrom(store, list, key, pos) ==
    IF pos > Len(list) THEN <<>>
    ELSE (IF containerGetProperty(store, list[pos], key, "value") # JNone
          THEN <<getContainerIndex(list, list[pos])>>
          ELSE <<>>) \o stackLevelsFrom(store, list, key, pos + 1)

\* SettingPropertyProvider._updateStackLevels
updateStackLevels(self, store, list) ==
    LET levels == stackLevelsFrom(store, list, self.key, 1)
    IN  IF levels # self.stack_levels
        THEN [provider |-> [self EXCEPT !.stack_levels = levels],
              emitted |-> <<"stackLevelChanged">>]
        ELSE [provider |-> self, emitted |-> <<>>]

\* SettingPropertyProvider._getPropertyValue
providerGetPropertyValue(self, store, list, types, property_name) ==
    LET property_value == stackGetProperty(store, list, self.key, property_name)
        type == stackGetProperty(store, list, self.key, "type")
        converted == settingValueToString(types, type.v, property_value)
    IN  IF property_name = "value"
        THEN IF IsRaise(converted) THEN converted ELSE PyStr(converted)
        ELSE PyStr(property_value)

\* the keys the loop of _update over the relations adds
requiredByValue(relations) ==
    { relations[i].target : i \in { j \in 1 .. Len(relations) :
        relations[j].type = "RequiredByTarget" /\ relations[j].role = "value" } }

\* the first exception of the loop of _update over the watched properties
RECURSIVE newPropertiesError(_, _, _, _, _)
newPropertiesError(self, store, list, types, pos) ==
    IF pos > Len(self.watched_properties) THEN None
    ELSE IF IsRaise(providerGetPropertyValue(self, store, list, types,
                                             self.watched_properties[pos]))
    THEN providerGetPropertyValue(self, store, list, types, self.watched_properties[pos]).v
    ELSE newPropertiesError(self, store, list, types, pos + 1)

\* new_properties of _update
newProperties(self, store, list, types) ==
    [property_name \in { self.watched_properties[i] : i \in 1 .. Len(self.watched_properties) } |->
        providerGetPropertyValue(self, store, list, types, property_name)]

\* SettingPropertyProvider._update: the provider after it, the exception it
\* raises and the signals it emits
providerUpdate(self, lists, store, types) ==
    IF self.stack = None \/ self.watched_properties = <<>> \/ self.key = ""
    THEN [provider |-> self, err |-> None, emitted |-> <<>>]
    ELSE LET list == lists[self.stack]
             levelled == updateStackLevels(self, store, list)
             relations == stackGetProperty(store, list, self.key, "relations")
             related == [levelled.provider EXCEPT
                            !.relations = @ \cup requiredByValue(relations.v)]
             error == newPropertiesError(self, store, list, types, 1)
             new_properties == newProperties(self, store, list, types)
         IN  IF relations = JNone
             THEN [provider |-> levelled.provider, err |-> "TypeError",
                   emitted |-> levelled.emitted]
             ELSE IF error # None
             THEN [provider |-> related, err |-> error, emitted |-> levelled.emitted]
             ELSE IF new_properties # self.property_values
             THEN [provider |-> [related EXCEPT !.property_values = new_properties],
                   err |-> None, emitted |-> levelled.emitted \o <<"propertiesChanged">>]
             ELSE [provider |-> related, err |-> None, emitted |-> levelled.emitted]

providerFrame ==
    UNCHANGED <<stackVars, values, definition_container, type_definitions, toolVars>>

disconnectNothing(connections, stack) == connections

\* stack.propertyChanged.disconnect(self._onPropertyChanged) and
\* stack.containersChanged.disconnect(self._update)
disconnectStack(connections, stack) == connections \ {stack}

\* stack.propertyChanged.connect(self._onPropertyChanged) and
\* stack.containersChanged.connect(self._update)
connectStack(connections, stack) == connections \cup {stack}

\* SettingPropertyProvider.setContainerStackId
setContainerStackIdCall(stack_id_) ==
    LET stacks == findContainerStacks(stack_id_, stack_id)
        stack == IF stack_id_ = <<>> THEN None
                 ELSE IF stack_id_ = GlobalId THEN getGlobalContainerStack
                 ELSE IF stacks # <<>> THEN stacks[1]
                 ELSE provider.stack
        disconnected == IF provider.stack # None
                        THEN disconnectStack(subscribed, provider.stack)
                        ELSE subscribed
        result == providerUpdate([provider EXCEPT !.stack_id = stack_id_, !.stack = stack],
                                 containers, properties, type_definitions)
    IN  /\ IF stack_id_ = provider.stack_id
           THEN /\ UNCHANGED <<provider, subscribed>>
                /\ emitted' = <<>>
                /\ last' = Call("setContainerStackId", "p", stack_id_, None, None, None)
           ELSE /\ provider' = result.provider
                /\ subscribed' = IF stack # None THEN connectStack(disconnected, stack)
                                 ELSE disconnected
                /\ emitted' = result.emitted \o
                        (IF result.err = None THEN <<"containerStackIdChanged">> ELSE <<>>)
                /\ last' = Call("setContainerStackId", "p", stack_id_, None, result.err, None)
        /\ UNCHANGED properties
        /\ providerFrame

\* SettingPropertyProvider.setWatchedProperties
setWatchedPropertiesCall(properties_) ==
    LET result == providerUpdate([provider EXCEPT !.watched_properties = properties_],
                                 containers, properties, type_definitions)
    IN  /\ IF properties_ # provider.watched_properties
           THEN /\ provider' = result.provider
                /\ emitted' = result.emitted \o
                        (IF result.err = None THEN <<"watchedPropertiesChanged">> ELSE <<>>)
                /\ last' = Call("setWatchedProperties", "p", properties_, None, result.err, None)
           ELSE /\ UNCHANGED provider
                /\ emitted' = <<>>
                /\ last' = Call("setWatchedProperties", "p", properties_, None, None, None)
        /\ UNCHANGED <<properties, subscribed>>
        /\ providerFrame

\* SettingPropertyProvider.setKey
setKeyCall(key) ==
    LET result == providerUpdate([provider EXCEPT !.key = key],
                                 containers, properties, type_definitions)
    IN  /\ IF key # provider.key
           THEN /\ provider' = result.provider
                /\ emitted' = result.emitted \o
                        (IF result.err = None THEN <<"keyChanged">> ELSE <<>>)
                /\ last' = Call("setKey", "p", key, None, result.err, None)
           ELSE /\ UNCHANGED provider
                /\ emitted' = <<>>
                /\ last' = Call("setKey", "p", key, None, None, None)
        /\ UNCHANGED <<properties, subscribed>>
        /\ providerFrame

\* SettingPropertyProvider.setStoreIndex: the signal it emits after the
\* assignment, indexChanged, is not an attribute of the provider
setStoreIndexCall(index) ==
    /\ IF index # provider.store_index
       THEN /\ provider' = [provider EXCEPT !.store_index = index]
            /\ last' = Call("setStoreIndex", "p", index, None, "AttributeError", None)
       ELSE /\ UNCHANGED provider
            /\ last' = Call("setStoreIndex", "p", index, None, None, None)
    /\ emitted' = <<>>
    /\ UNCHANGED <<properties, subscribed>>
    /\ providerFrame

\* the exception setPropertyValue raises, "return" where it returns without
\* writing, None where it writes
setPropertyValueOutcome(self, lists, property_name, property_value) ==
    IF self.stack = None \/ self.key = "" THEN "return"
    ELSE IF \A i \in 1 .. Len(self.watched_properties) :
                self.watched_properties[i] # property_name
    THEN "return"
    ELSE IF property_name \notin DOMAIN self.property_values THEN "KeyError"
    ELSE IF self.property_values[property_name] = property_value THEN "return"
    ELSE IF self.store_index = -1 \/ ListPos(lists[self.stack], self.store_index) = 0
    THEN "IndexError"
    ELSE IF lists[self.stack][ListPos(lists[self.stack], self.store_index)]
                \in DefinitionContainers
    THEN "return"
    ELSE None

\* SettingPropertyProvider.setPropertyValue
setPropertyValueCall(property_name, property_value) ==
    LET outcome == setPropertyValueOutcome(provider, containers, property_name, property_value)
    IN  /\ properties' =
                IF outcome = None
                THEN setProperty(properties,
                                 containers[provider.stack][ListPos(containers[provider.stack],
                                                                    provider.store_index)],
                                 provider.key, property_name, property_value)
                ELSE properties
        /\ last' = Call("setPropertyValue", "p", <<property_name, property_value>>, None,
                        IF outcome \in {None, "return"} THEN None ELSE outcome, None)
        /\ emitted' = <<>>
        /\ UNCHANGED <<provider, subscribed>>
        /\ providerFrame

\* container.removeInstance(key): the container without the properties of the key
removeInstance(store, container, key) ==
    [store EXCEPT ![container] =
        [entry \in { held \in DOMAIN store[container] : held[1] # key } |->
            store[container][entry]]]

\* the exception removeFromContainer raises, "return" where it returns
\* without removing, None where it removes
removeFromContainerOutcome(self, lists, index) ==
    IF self.stack = None THEN "AttributeError"
    ELSE IF index = -1 \/ ListPos(lists[self.stack], index) = 0 THEN "IndexError"
    ELSE IF lists[self.stack][ListPos(lists[self.stack], index)] \notin InstanceContainers
    THEN "return"
    ELSE None

\* SettingPropertyProvider.removeFromContainer
removeFromContainerCall(index) ==
    LET outcome == removeFromContainerOutcome(provider, containers, index)
    IN  /\ properties' =
                IF outcome = None
                THEN removeInstance(properties,
                                    containers[provider.stack][ListPos(containers[provider.stack],
                                                                       index)],
                                    provider.key)
                ELSE properties
        /\ last' = Call("removeFromContainer", "p", index, None,
                        IF outcome \in {None, "return"} THEN None ELSE outcome, None)
        /\ emitted' = <<>>
        /\ UNCHANGED <<provider, subscribed>>
        /\ providerFrame

\* SettingPropertyProvider.getPropertyValue
getPropertyValueCall(property_name, stack_level) ==
    LET list == containers[provider.stack]
        pos == ListPos(list, stack_level)
    IN  /\ last' =
                IF provider.stack = None
                THEN Call("getPropertyValue", "p", <<property_name, stack_level>>, None,
                          "AttributeError", JNone)
                ELSE Call("getPropertyValue", "p", <<property_name, stack_level>>, None, None,
                          IF pos = 0 THEN JNone
                          ELSE containerGetProperty(properties, list[pos], provider.key,
                                                    property_name))
        /\ emitted' = <<>>
        /\ UNCHANGED <<provider, properties, subscribed>>
        /\ providerFrame

\* the container lists the stack with id "s" is given, the properties the
\* containers hold, and the arguments of the calls
ProviderContainers == { <<"i1">>, <<"i1", "i1", "d1">> }
ProviderProperties ==
    [c \in Leaves |->
        CASE c = "d1" -> (<<"k1", "type">> :> JStr("int")) @@ (<<"k2", "type">> :> JStr("int"))
                         @@ (<<"k1", "label">> :> JStr("L"))
          [] c = "i1" -> (<<"k1", "value">> :> JInt("5"))
          [] c = "i2" -> (<<"k2", "value">> :> JInt("7"))]
ProviderStackIds == { <<>>, <<"s">>, GlobalId }
ProviderKeys == {"", "k1", "k2"}
WatchedProperties == { <<>>, <<"value">> }
StoreIndices == {-1, 1, 3}
StackLevels == {-1, 0, 3}
ProvidedNames == {"value", "label"}
ProvidedValues == {JStr("5")}

InitProvider ==
    /\ stack_id = InitialStackId
    /\ stack_name = [s \in Stacks |-> ContainerStackInit(InitialStackId[s]).name]
    /\ metadata = [s \in Stacks |-> ContainerStackInit(InitialStackId[s]).metadata]
    /\ \E list \in ProviderContainers :
        containers = [s \in Stacks |->
            CASE s = "S" -> list [] s = "T" -> <<"i2", "i1", "d1">> [] s = "U" -> <<>>]
    /\ next_stack = [s \in Stacks |-> ContainerStackInit(InitialStackId[s]).next_stack]
    /\ values = [c \in Leaves |-> [k \in Keys |-> None]]
    /\ definition_container = DefinitionContainerInit("d")
    /\ emitted = <<>>
    /\ type_definitions = TypeDefinitionsInit
    /\ provider = SettingPropertyProviderInit
    /\ properties = ProviderProperties
    /\ subscribed = {}
    /\ tool = CameraToolInit
    /\ scene = SceneInit
    /\ pending = NoPending
    /\ last = NoCall

NextProvider ==
    \/ \E stack_id_ \in ProviderStackIds : setContainerStackIdCall(stack_id_)
    \/ \E properties_ \in WatchedProperties : setWatchedPropertiesCall(properties_)
    \/ \E key \in ProviderKeys : setKeyCall(key)
    \/ \E index \in StoreIndices : setStoreIndexCall(index)
    \/ \E property_name \in ProvidedNames, property_value \in ProvidedValues :
        setPropertyValueCall(property_name, property_value)
    \/ \E stack_level \in StackLevels : getPropertyValueCall("value", stack_level)

SpecProvider == InitProvider /\ [][NextProvider]_vars

\* the provider watches the property
Watched(property_name) ==
    \E i \in 1 .. Len(provider.watched_properties) :
        provider.watched_properties[i] = property_name

\* the stack of the provider has a container at the store index
HasStoreContainer ==
    /\ provider.stack # None
    /\ provider.store_index >= 0
    /\ provider.store_index < Len(containers[provider.stack])

StoreContainer == containers[provider.stack][provider.store_index + 1]

\* the cases in which setPropertyValue(property_name, property_value) is to write nothing
WritesNothing(property_name, property_value) ==
    \/ provider.stack = None
    \/ provider.key = ""
    \/ ~Watched(property_name)
    \/ /\ property_name \in DOMAIN provider.property_values
       /\ provider.property_values[property_name] = property_value
    \/ /\ HasStoreContainer
       /\ StoreContainer \in DefinitionContainers

\* C26: setPropertyValue(p, v) writes to no container when p is not watched,
\* when the cached value of p equals v, when no stack or no key is set, or when
\* the container at the store index is a definition container; in every other
\* case with a container at the store index it writes (key, p, v) to that
\* container and changes nothing else of it and no other container.
C26_WritesStoreContainerOnly ==
    [][last'.op = "setPropertyValue" =>
        IF WritesNothing(last'.arg[1], last'.arg[2])
        THEN properties' = properties
        ELSE HasStoreContainer =>
            /\ \A c \in Leaves \ {StoreContainer} : properties'[c] = properties[c]
            /\ <<provider.key, last'.arg[1]>> \in DOMAIN properties'[StoreContainer]
            /\ properties'[StoreContainer][<<provider.key, last'.arg[1]>>] = last'.arg[2]
            /\ \A entry \in DOMAIN properties[StoreContainer] \ {<<provider.key, last'.arg[1]>>} :
                /\ entry \in DOMAIN properties'[StoreContainer]
                /\ properties'[StoreContainer][entry] = properties[StoreContainer][entry]
      ]_vars

\* index is an index of the container list of the provider's stack
InContainerRange(index) ==
    /\ index >= 0
    /\ index < Len(containers[provider.stack])

\* C27: with a stack set, getPropertyValue and setPropertyValue do not raise;
\* getPropertyValue(p, level) with a level outside the container range of the
\* stack returns None, setPropertyValue(p, v) with a store index outside it
\* (or -1) writes nothing, and both leave the provider and the stack as they
\* were.
C27_NeverRaises ==
    [][(provider.stack # None /\ last'.op \in {"getPropertyValue", "setPropertyValue"}) =>
        /\ last'.err = None
        /\ (last'.op = "getPropertyValue" /\ ~InContainerRange(last'.arg[2])) =>
            /\ last'.ret = JNone
            /\ UNCHANGED <<provider, properties, stackVars>>
        /\ (last'.op = "setPropertyValue" /\ ~InContainerRange(provider.store_index)) =>
            UNCHANGED <<provider, properties, stackVars>>
      ]_vars

\* the provider has a stack, a key and watched properties, and the last call,
\* one of its three configuring setters, returned
Configured ==
    /\ last.op \in {"setContainerStackId", "setKey", "setWatchedProperties"}
    /\ last.err = None
    /\ provider.stack # None
    /\ provider.key # ""
    /\ provider.watched_properties # <<>>

\* the keys some container of the provider's stack names as required by the
\* provider's key through the value property
RequiredByCurrentKey ==
    { target \in {"k1", "k2", "k3", "k4"} :
        \E i \in 1 .. Len(containers[provider.stack]) :
            LET relations == containerGetProperty(properties, containers[provider.stack][i],
                                                  provider.key, "relations")
            IN  /\ relations # JNone
                /\ \E j \in 1 .. Len(relations.v) :
                    relations.v[j] = ProviderRelation("RequiredByTarget", target, "value") }

\* C28: after a call of setContainerStackId, setKey or setWatchedProperties on
\* a provider with a stack, a key and watched properties, the relation set of
\* the provider is exactly the set of keys that are RequiredByTarget of the
\* current key through the value property in the current stack.
C28_RelationsOfCurrentKey ==
    Configured => provider.relations = RequiredByCurrentKey

\* the cached property values are those of the provider's configuration: one
\* entry per watched property, computed from the stack and the key, and none
\* with no watched property, an empty key or no stack
ValuesOfConfiguration ==
    IF provider.stack = None \/ provider.key = "" \/ provider.watched_properties = <<>>
    THEN DOMAIN provider.property_values = {}
    ELSE /\ DOMAIN provider.property_values =
                { provider.watched_properties[i] : i \in 1 .. Len(provider.watched_properties) }
         /\ \A property_name \in DOMAIN provider.property_values :
                provider.property_values[property_name] =
                    providerGetPropertyValue(provider, properties, containers[provider.stack],
                                             type_definitions, property_name)

\* C29: after a call of setContainerStackId, setKey or setWatchedProperties
\* that changed the stack id, the key or the watched properties and returned,
\* the cached property values have exactly one entry per watched property, each
\* the value computed from the current stack and key; with no watched
\* property, an empty key or no stack no value is exposed.
C29_ValuesOfCurrentConfiguration ==
    [][(/\ last'.op \in {"setContainerStackId", "setKey", "setWatchedProperties"}
        /\ last'.err = None
        /\ \/ provider'.stack_id # provider.stack_id
           \/ provider'.key # provider.key
           \/ provider'.watched_properties # provider.watched_properties)
        => ValuesOfConfiguration']_vars

\* the indices of the containers of the provider's stack that answer a value
\* for the provider's key
ValueIndices ==
    { index \in 0 .. Len(containers[provider.stack]) - 1 :
        containerGetProperty(properties, containers[provider.stack][index + 1],
                             provider.key, "value") # JNone }

\* the levels are strictly ascending and are exactly the indices
AscendingLevels(levels, indices) ==
    /\ \A a \in 1 .. Len(levels) : \A b \in 1 .. Len(levels) : a < b => levels[a] < levels[b]
    /\ { levels[a] : a \in 1 .. Len(levels) } = indices

\* C30: after a recompute (a setter that changed the stack id, the key or the
\* watched properties of a provider that then has a stack, a key and watched
\* properties), the stack levels are the strictly ascending list of exactly
\* the indices of the containers of the current stack that answer a value
\* property for the current key.
C30_StackLevels ==
    [][(/\ last'.op \in {"setContainerStackId", "setKey", "setWatchedProperties"}
        /\ \/ provider'.stack_id # provider.stack_id
           \/ provider'.key # provider.key
           \/ provider'.watched_properties # provider.watched_properties
        /\ provider'.stack # None
        /\ provider'.key # ""
        /\ provider'.watched_properties # <<>>)
        => AscendingLevels(provider'.stack_levels, ValueIndices')]_vars

-----------------------------------------------------------------------------
(***************************************************************************)
(* SettingPropertyProvider: isValueUsed and the handling of the            *)
(* propertyChanged events of the stack the provider is connected to.       *)
(***************************************************************************)

\* the parents of the setting definitions of d1: k2 and k3 are children of k1
SettingParent == [k1 |-> None, k2 |-> "k1", k3 |-> "k1"]

\* stack.getSettingDefinition(key): the definition is known by its key
getSettingDefinition(list, key) ==
    IF /\ key \in DOMAIN SettingParent
       /\ \E i \in 1 .. Len(list) : list[i] \in DefinitionContainers
    THEN key
    ELSE None

\* definition.isDescendant(key)
RECURSIVE isDescendant(_, _)
isDescendant(definition, key) ==
    IF key \notin DOMAIN SettingParent THEN FALSE
    ELSE IF SettingParent[key] = None THEN FALSE
    ELSE SettingParent[key] = definition \/ isDescendant(definition, SettingParent[key])

\* UM.Settings.InstanceState.User
InstanceStateUser == [t |-> "state", v |-> "User"]

\* Python's True and False
PyBool(b) == IF b THEN "True" ELSE "False"

countedRelationsAll(self, definition) == self.relations

\* the keys the loop of isValueUsed counts as relations
countedRelations(self, definition) ==
    { key \in self.relations : isDescendant(definition, key) }

\* the keys the loop of isValueUsed counts as used
countedUsed(self, store, list, definition) ==
    { key \in countedRelations(self, definition) :
        stackGetProperty(store, list, key, "state") # InstanceStateUser }

\* SettingPropertyProvider.isValueUsed: the provider after it, the exception
\* raised and the value returned
isValueUsed(self, lists, store) ==
    IF self.value_used # None
    THEN [provider |-> self, err |-> None, ret |-> self.value_used]
    ELSE IF self.stack = None
    THEN [provider |-> self, err |-> "AttributeError", ret |-> None]
    ELSE IF getSettingDefinition(lists[self.stack], self.key) = None
    THEN [provider |-> self, err |-> None, ret |-> PyBool(FALSE)]
    ELSE LET definition == getSettingDefinition(lists[self.stack], self.key)
             value_used ==
                PyBool(\/ countedRelations(self, definition) = {}
                       \/ countedUsed(self, store, lists[self.stack], definition) # {})
         IN  [provider |-> [self EXCEPT !.value_used = value_used],
              err |-> None, ret |-> value_used]

storeValueInAll(self, property_name, value) ==
    [self EXCEPT !.property_values = [name \in DOMAIN @ |-> value]]

\* the assignment of _onPropertyChanged to the cached value of the property
storeValue(self, property_name, value) ==
    IF self.property_values[property_name] # value
    THEN [self EXCEPT !.property_values[property_name] = value]
    ELSE self

\* SettingPropertyProvider._onPropertyChanged: the provider after it, the
\* exception raised and the signals emitted
onPropertyChanged(self, lists, store, types, key, property_name) ==
    LET value == providerGetPropertyValue(self, store, lists[self.stack], types, property_name)
        stored == storeValue(self, property_name, value)
        levelled == updateStackLevels(stored, store, lists[self.stack])
    IN  IF key # self.key
        THEN IF key \in self.relations
             THEN [provider |-> [self EXCEPT !.value_used = None], err |-> None,
                   emitted |-> <<"isValueUsedChanged">>]
             ELSE [provider |-> self, err |-> None, emitted |-> <<>>]
        ELSE IF \A i \in 1 .. Len(self.watched_properties) :
                    self.watched_properties[i] # property_name
        THEN [provider |-> self, err |-> None, emitted |-> <<>>]
        ELSE IF self.stack = None
        THEN [provider |-> self, err |-> "AttributeError", emitted |-> <<>>]
        ELSE IF IsRaise(value)
        THEN [provider |-> self, err |-> value.v, emitted |-> <<>>]
        ELSE IF property_name \notin DOMAIN self.property_values
        THEN [provider |-> self, err |-> "KeyError", emitted |-> <<>>]
        ELSE [provider |-> levelled.provider, err |-> None,
              emitted |-> (IF stored # self THEN <<"propertiesChanged">> ELSE <<>>)
                          \o levelled.emitted]

\* the provider is asked whether its value is used
isValueUsedCall ==
    LET result == isValueUsed(provider, containers, properties)
    IN  /\ provider' = result.provider
        /\ last' = Call("isValueUsed", "p", None, None, result.err, result.ret)
        /\ emitted' = <<>>
        /\ UNCHANGED <<properties, subscribed>>
        /\ providerFrame

\* a stack the provider is connected to emits propertyChanged(key, property_name)
onPropertyChangedCall(stack, key, property_name) ==
    LET result == onPropertyChanged(provider, containers, properties, type_definitions,
                                    key, property_name)
    IN  /\ stack \in subscribed
        /\ provider' = result.provider
        /\ last' = Call("onPropertyChanged", "p", <<stack, key, property_name>>, None,
                        result.err, None)
        /\ emitted' = result.emitted
        /\ UNCHANGED <<properties, subscribed>>
        /\ providerFrame

\* the properties the containers hold, the ids, the watched properties and the
\* events
EventProperties ==
    [c \in Leaves |->
        CASE c = "d1" -> (<<"k1", "type">> :> JStr("int")) @@ (<<"k2", "type">> :> JStr("int"))
                         @@ (<<"k1", "label">> :> JStr("L"))
          [] c = "i1" -> (<<"k1", "value">> :> JInt("5")) @@ (<<"k2", "state">> :> InstanceStateUser)
          [] c = "i2" -> (<<"k2", "value">> :> JInt("7")) @@ (<<"k3", "state">> :> InstanceStateUser)]
EventStackIds == { <<>>, <<"s">>, GlobalId, <<"z">> }
EventWatched == { <<>>, <<"value", "label">> }
EventKeys == {"k1", "k2", "k3"}
EventNames == {"value", "type"}

InitEvents ==
    /\ stack_id = InitialStackId
    /\ stack_name = [s \in Stacks |-> ContainerStackInit(InitialStackId[s]).name]
    /\ metadata = [s \in Stacks |-> ContainerStackInit(InitialStackId[s]).metadata]
    /\ containers = [s \in Stacks |->
            CASE s = "S" -> <<"i1", "d1">> [] s = "T" -> <<"i2", "i1", "d1">> [] s = "U" -> <<>>]
    /\ next_stack = [s \in Stacks |-> ContainerStackInit(InitialStackId[s]).next_stack]
    /\ values = [c \in Leaves |-> [k \in Keys |-> None]]
    /\ definition_container = DefinitionContainerInit("d")
    /\ emitted = <<>>
    /\ type_definitions = TypeDefinitionsInit
    /\ provider = SettingPropertyProviderInit
    /\ properties = EventProperties
    /\ subscribed = {}
    /\ tool = CameraToolInit
    /\ scene = SceneInit
    /\ pending = NoPending
    /\ last = NoCall

NextEvents ==
    \/ \E stack_id_ \in EventStackIds : setContainerStackIdCall(stack_id_)
    \/ \E properties_ \in EventWatched : setWatchedPropertiesCall(properties_)
    \/ \E key \in ProviderKeys : setKeyCall(key)
    \/ \E property_value \in ProvidedValues : setPropertyValueCall("value", property_value)
    \/ isValueUsedCall
    \/ \E stack \in Stacks, key \in EventKeys, property_name \in EventNames :
        onPropertyChangedCall(stack, key, property_name)

SpecEvents == InitEvents /\ [][NextEvents]_vars

\* the same stacks and events, with the properties of the key removed from
\* the containers instead of written to them
RemovedIndices == {-1, 0, 1, 2}

NextRemoval ==
    \/ \E stack_id_ \in EventStackIds : setContainerStackIdCall(stack_id_)
    \/ \E properties_ \in EventWatched : setWatchedPropertiesCall(properties_)
    \/ \E key \in ProviderKeys : setKeyCall(key)
    \/ \E index \in RemovedIndices : removeFromContainerCall(index)
    \/ isValueUsedCall
    \/ \E stack \in Stacks, key \in EventKeys, property_name \in EventNames :
        onPropertyChangedCall(stack, key, property_name)

SpecRemoval == InitEvents /\ [][NextRemoval]_vars

\* the key has a state property in the provider's stack that is not User
NotUserState(key) ==
    stackGetProperty(properties, containers[provider.stack], key, "state") # InstanceStateUser

\* isValueUsed computes its value: the provider has a stack and no cached flag
ComputesValueUsed == provider.stack # None /\ provider.value_used = None

\* C31 as stated: isValueUsed, computed with a stack set and no cached flag, is
\* true exactly when the relation set is empty or at least one key of the
\* relation set has a state property in the stack that is not User.
C31_ValueUsed ==
    [][(last'.op = "isValueUsed" /\ ComputesValueUsed) =>
        /\ last'.err = None
        /\ last'.ret = PyBool(\/ provider.relations = {}
                              \/ \E key \in provider.relations : NotUserState(key))
      ]_vars

\* C31, amended: isValueUsed, computed with a stack set and no cached flag, is
\* false when the stack has no definition of the provider's key; otherwise it
\* is true exactly when no key of the relation set is a descendant of that
\* definition or at least one such descendant has a state property in the
\* stack that is not User.
C31_DescendantsValueUsed ==
    [][(last'.op = "isValueUsed" /\ ComputesValueUsed) =>
        /\ last'.err = None
        /\ last'.ret =
            IF getSettingDefinition(containers[provider.stack], provider.key) = None
            THEN PyBool(FALSE)
            ELSE PyBool(\/ \A key \in provider.relations : ~isDescendant(provider.key, key)
                        \/ \E key \in provider.relations :
                            isDescendant(provider.key, key) /\ NotUserState(key))
      ]_vars

\* the value was computed for k2 on the global stack, whose relation k3 is in
\* the User state and is not a descendant of k2
C31_Witness ==
    /\ last.op = "isValueUsed"
    /\ last.ret = "True"
    /\ provider.value_used = "True"
    /\ provider.key = "k2"
    /\ provider.stack = "T"
    /\ "k3" \in provider.relations
    /\ ~NotUserState("k3")

\* C32: a propertyChanged event for a key other than the provider's leaves the
\* cached property values and the stack levels unchanged and clears the cached
\* isValueUsed flag if and only if the key is in the relation set; an event for
\* the provider's key and a watched property re-derives the cached value of
\* that property only; an event for the provider's key and a property that is
\* not watched changes nothing.
C32_PropertyChangedFrame ==
    [][last'.op = "onPropertyChanged" =>
        LET key == last'.arg[2]
            property_name == last'.arg[3]
        IN  /\ key # provider.key =>
                /\ provider' = [provider EXCEPT !.value_used = provider'.value_used]
                /\ provider'.value_used =
                        IF key \in provider.relations THEN None ELSE provider.value_used
            /\ (key = provider.key /\ Watched(property_name)) =>
                /\ DOMAIN provider'.property_values = DOMAIN provider.property_values
                /\ \A other \in DOMAIN provider.property_values \ {property_name} :
                        provider'.property_values[other] = provider.property_values[other]
                /\ last'.err = None =>
                        provider'.property_values[property_name] =
                            providerGetPropertyValue(provider, properties,
                                                     containers[provider.stack],
                                                     type_definitions, property_name)
            /\ (key = provider.key /\ ~Watched(property_name)) => provider' = provider
            /\ UNCHANGED <<properties, subscribed, stackVars>>
      ]_vars

\* the event for the provider's key and the watched property value replaced
\* the cached "7" by the "5" written since, next to the cached label
C32_Witness ==
    /\ last.op = "onPropertyChanged"
    /\ last.arg = <<"T", "k2", "value">>
    /\ last.err = None
    /\ provider.key = "k2"
    /\ DOMAIN provider.property_values = {"value", "label"}
    /\ provider.property_values["value"] = JStr("5")
    /\ provider.property_values["label"] = JStr("None")
    /\ emitted = <<"propertiesChanged">>

\* C33: the provider is connected to the signals of at most one stack, the
\* stack it holds, so that an event it handles is an event of that stack.
C33_SubscribedToHeldStack ==
    /\ Cardinality(subscribed) <= 1
    /\ \A stack \in subscribed : stack = provider.stack
    /\ last.op = "onPropertyChanged" => last.arg[1] = provider.stack

\* the provider was moved from the global stack, where it computed "7" for k2,
\* to the stack with id "s", the only one it is connected to now
C33_Witness ==
    /\ last.op = "setContainerStackId"
    /\ last.arg = <<"s">>
    /\ provider.stack = "S"
    /\ subscribed = {"S"}
    /\ provider.watched_properties = <<>>
    /\ "value" \in DOMAIN provider.property_values
    /\ provider.property_values["value"] = JStr("7")

\* the stack registered under the id: the global stack for "global", None for
\* the empty id and for an id no stack is registered under
RegisteredUnder(id) ==
    IF id = <<>> THEN None
    ELSE IF id = GlobalId THEN getGlobalContainerStack
    ELSE IF \E stack \in Stacks : stack_id[stack] = id
    THEN CHOOSE stack \in Stacks : stack_id[stack] = id
    ELSE None

\* C34: after setContainerStackId(id) returns, the provider holds the stack
\* registered under id, no stack when id is empty or no stack is registered
\* under it, and is connected to no other stack.
C34_HoldsStackOfId ==
    [][(last'.op = "setContainerStackId" /\ last'.err = None) =>
        /\ provider'.stack = RegisteredUnder(last'.arg)
        /\ \A stack \in subscribed' : stack = RegisteredUnder(last'.arg)
      ]_vars

\* what isValueUsed computes for the provider without its cached flag
FreshValueUsed == isValueUsed([provider EXCEPT !.value_used = None], containers, properties)

\* C35: a cached isValueUsed flag is the value isValueUsed computes afresh for
\* the key and the stack the provider has.
C35_CachedValueUsedIsFresh ==
    provider.value_used # None =>
        /\ FreshValueUsed.err = None
        /\ FreshValueUsed.ret = provider.value_used

-----------------------------------------------------------------------------
(***************************************************************************)
(* Termination of the layered lookup.                                      *)
(***************************************************************************)
\* the stacks getValue of the stack calls getValue of: its nested stacks and
\* its next stack
CalledStacks(self) ==
    { containers[self][i] : i \in { j \in 1 .. Len(containers[self]) :
                                        containers[self][j] \in Stacks } }
    \cup (IF next_stack[self] # None THEN {next_stack[self]} ELSE {})

RECURSIVE ReachedStacks(_, _)
\* the stacks reached from the stacks of from, those of seen apart
ReachedStacks(from, seen) ==
    IF from \subseteq seen THEN seen
    ELSE ReachedStacks(UNION { CalledStacks(stack) : stack \in from \ seen }, seen \cup from)

\* no stack reached from self reaches itself
Acyclic(self) ==
    \A stack \in ReachedStacks({self}, {}) :
        stack \notin ReachedStacks(CalledStacks(stack), {})

RECURSIVE Occurrences(_)
\* the occurrences of definition and instance containers in the lists of the
\* stack, of its nested stacks and of the stacks on its chain
Occurrences(self) ==
    LET RECURSIVE from(_)
        from(i) ==
            IF i > Len(containers[self]) THEN 0
            ELSE (IF containers[self][i] \in Leaves THEN 1
                  ELSE Occurrences(containers[self][i])) + from(i + 1)
    IN  from(1) + (IF next_stack[self] # None THEN Occurrences(next_stack[self]) ELSE 0)

RECURSIVE Consulted(_, _, _)
\* the number of getValue calls on definition and instance containers that
\* getValue(key) of the stack makes, from position i of its list on
Consulted(self, key, i) ==
    IF i > Len(containers[self])
    THEN IF next_stack[self] # None THEN Consulted(next_stack[self], key, 1) ELSE 0
    ELSE (IF containers[self][i] \in Leaves THEN 1
          ELSE Consulted(containers[self][i], key, 1))
         + (IF ContainerGetValue(containers[self][i], key, {}) # None THEN 0
            ELSE Consulted(self, key, i + 1))

\* C36: getValue(k) of a stack whose next-stack chain and nested stacks form
\* no cycle ends, with a value or None, after consulting each container of
\* each stack on the chain at most once per occurrence.
C36_AcyclicLookupEnds ==
    [][(last'.op = "getValue" /\ Acyclic(last'.self)) =>
        /\ last'.err = None
        /\ Consulted(last'.self, last'.arg, 1) <= Occurrences(last'.self)
      ]_vars

\* the lookup went through a nested stack and the next stack, both the stack
\* T with its container, and found nothing
C36_Witness ==
    /\ last.op = "getValue"
    /\ last.err = None
    /\ last.ret = None
    /\ containers["S"] = <<"T", "i1">>
    /\ next_stack["S"] = "T"
    /\ containers["T"] = <<"i1">>

(***************************************************************************)
(* Next-stack chains: the links of S and T are set to any of the stacks,   *)
(* each stack receives one container, and both stacks are queried.         *)
(***************************************************************************)
ChainStacks == {"S", "T"}

NextChain ==
    \/ \E self \in ChainStacks, s \in {None} \cup ChainStacks : setNextStack(self, s)
    \/ \E self \in ChainStacks, c \in {"i1", "d1"} :
            containers[self] = <<>> /\ addContainer(self, c)
    \/ \E self \in ChainStacks, k \in Keys : getValueCall(self, k)

SpecChain == InitLookup /\ [][NextChain]_vars

RECURSIVE NextStackChain(_, _)
\* the stacks on the next-stack chain of the stack, the stack included
NextStackChain(self, seen) ==
    IF self = None \/ self \in seen THEN seen
    ELSE NextStackChain(getNextStack(self), seen \cup {self})

\* the next-stack chain of the stack leads back to it
OnNextStackCycle(self) ==
    /\ getNextStack(self) # None
    /\ self \in NextStackChain(getNextStack(self), {})

\* no container of a stack on the chain has a value for key
DefinedNowhereOnChain(self, key) ==
    \A stack \in NextStackChain(self, {}) :
        \A i \in 1 .. Len(containers[stack]) :
            /\ containers[stack][i] \in Leaves
            /\ values[containers[stack][i]][key] = None

\* C37: setNextStack(s) validates nothing and changes the next-stack link
\* only: it succeeds for every s, the stack itself and a stack whose chain
\* leads back to it included, and getNextStack gives s afterwards; on a chain
\* that leads back to the stack, getValue(k) for a key that no container on
\* the chain defines returns nothing: the lookup recurses without end.
C37_NextStackUnvalidated ==
    [][/\ \A self \in Stacks :
            (last'.op = "setNextStack" /\ last'.self = self) =>
                /\ last'.err = None
                /\ getNextStack(self)' = last'.arg
                /\ UNCHANGED <<containers, stack_id, stack_name, metadata>>
                /\ \A stack \in Stacks \ {self} : getNextStack(stack)' = getNextStack(stack)
       /\ (/\ last'.op = "getValue"
           /\ OnNextStackCycle(last'.self)
           /\ DefinedNowhereOnChain(last'.self, last'.arg)) =>
            /\ last'.err = RecursionError
            /\ last'.ret = None
      ]_vars

\* the next stack of S was set to T, whose chain leads back to S, and the
\* lookup of a key that i1 and d1 do not define ran on the cycle
C37_Witness ==
    /\ last.op = "getValue"
    /\ last.self = "S"
    /\ getNextStack("S") = "T"
    /\ getNextStack("T") = "S"
    /\ containers["S"] = <<"i1">>
    /\ containers["T"] = <<"d1">>
    /\ values["i1"][last.arg] = None
    /\ values["d1"][last.arg] = None
    /\ last.err = RecursionError

-----------------------------------------------------------------------------
(***************************************************************************)
(* A stack over the definition container: ContainerStack.getValue with the *)
(* definition container d1, holding the deserialized definitions, and the  *)
(* instance containers in its list.                                        *)
(***************************************************************************)
\* container.getValue(key) of a container of the list: the definition
\* container answers from its definitions, an instance container with the
\* value it holds
containerGetValue(c, key) ==
    IF c \in DefinitionContainers THEN definitionGetValue(definition_container, key)
    ELSE IF values[c][key] # None THEN JStr(values[c][key])
    ELSE JNone

RECURSIVE getValueFrom(_, _, _)

\* ContainerStack.getValue with a loop that goes on after a container raised
getValueFromPastRaise(self, key, i) ==
    LET RECURSIVE loop(_)
        loop(j) ==
            IF j > Len(containers[self])
            THEN IF next_stack[self] # None
                 THEN getValueFrom(next_stack[self], key, 1)
                 ELSE JNone
            ELSE LET value == containerGetValue(containers[self][j], key)
                 IN  IF ~IsRaise(value) /\ value # JNone THEN value
                     ELSE loop(j + 1)
    IN loop(i)

\* ContainerStack.getValue(key) from position i of the list on: an exception
\* of container.getValue leaves the loop and the call
getValueFrom(self, key, i) ==
    IF i > Len(containers[self])
    THEN IF next_stack[self] # None
         THEN getValueFrom(next_stack[self], key, 1)
         ELSE JNone
    ELSE LET value == containerGetValue(containers[self][i], key)
         IN  IF IsRaise(value) THEN value
             ELSE IF value # JNone THEN value
             ELSE getValueFrom(self, key, i + 1)

getValueFromCall(self, key) ==
    LET result == getValueFrom(self, key, 1)
    IN  /\ last' = Call("getValue", self, key, None,
                        IF IsRaise(result) THEN result.v ELSE None, result)
        /\ UNCHANGED definition_container
        /\ queryFrame

ReachDocuments ==
    { JDict(<< <<"version", JInt("2")>>, <<"name", JStr("Q")>>,
               <<"metadata", JDict(<<>>)>>, <<"settings", settings>> >>) :
        settings \in {SettingsAB, SettingsTree} }

\* i1 and i2 hold a value for every key
InitReach ==
    /\ InitStacks
    /\ values = [c \in Leaves |-> [k \in QueryKeys |-> IF c = "d1" THEN None ELSE "7"]]

NextReach ==
    \/ \E parsed \in ReachDocuments :
        /\ Len(definition_container.definitions) < MaxDefinitions
        /\ definitionDeserializeCall(parsed)
    \/ \E c \in {"d1", "i1"} : Len(containers["S"]) < MaxLen /\ addContainer("S", c)
    \/ containers["T"] = <<>> /\ addContainer("T", "i2")
    \/ \E s \in {None, "T"} : setNextStack("S", s)
    \/ \E key \in QueryKeys : definitionGetValueCall(key)
    \/ \E key \in QueryKeys : getValueFromCall("S", key)

SpecReach == InitReach /\ [][NextReach]_vars

\* the first definition with the key, in document order, declares no default_value
FirstLacksDefaultValue(key) ==
    \E first \in DefinitionPaths :
        /\ nodeAt(definition_container.definitions, first).key = key
        /\ \A other \in DefinitionPaths \ {first} :
            nodeAt(definition_container.definitions, other).key = key
                => PathBefore(first, other)
        /\ "default_value" \notin
                DOMAIN nodeAt(definition_container.definitions, first).property_values

\* the lookup of the stack reaches the definition container: it is in the
\* list and no container above it has a value for the key
ReachesDefinitionContainer(self, key) ==
    \E i \in 1 .. Len(containers[self]) :
        /\ containers[self][i] \in DefinitionContainers
        /\ \A j \in 1 .. (i - 1) : containers[self][j] \notin DefinitionContainers
                                    /\ containerGetValue(containers[self][j], key) = JNone

\* C38: when the first definition with the key declares no default_value,
\* DefinitionContainer.getValue(key) raises a lookup failure (AttributeError)
\* instead of returning None, and ContainerStack.getValue(key) on a stack
\* whose lookup reaches that container raises it too, whatever the containers
\* below it and the next stack hold.
C38_MissingDefaultRaises ==
    /\ (last.op = "definitionGetValue" /\ FirstLacksDefaultValue(last.arg)) =>
            /\ last.err = "AttributeError"
            /\ last.ret # JNone
    /\ (/\ last.op = "getValue"
        /\ FirstLacksDefaultValue(last.arg)
        /\ ReachesDefinitionContainer(last.self, last.arg)) =>
            /\ last.err = "AttributeError"
            /\ last.ret # JNone

\* the definition container is on top of an instance container with a value
\* for the key, the next stack has one too, and the lookup raised
C38_Witness ==
    /\ last.op = "getValue"
    /\ last.err = "AttributeError"
    /\ containers["S"] = <<"d1", "i1">>
    /\ next_stack["S"] = "T"
    /\ containers["T"] = <<"i2">>
    /\ values["i1"][last.arg] = "7"
    /\ FirstLacksDefaultValue(last.arg)

-----------------------------------------------------------------------------
(***************************************************************************)
(* A SettingDefinition deserialized again: _deserialize_dict on a          *)
(* definition that holds the property values of an earlier document.       *)
(***************************************************************************)
\* definition.deserialize(serialized) on a deserialized definition: the
\* children start empty, the property values are the ones it holds
deserializeAgain(definition, serialized) ==
    deserializeDefinition(definition.key, serialized, definition.property_values)

\* the call on the definition the last call made
deserializeAgainCall(serialized) ==
    /\ last.op \in {"settingDeserialize", "deserializeAgain"}
    /\ last.err = None
    /\ LET result == deserializeAgain(last.ret, serialized)
       IN  last' = Call("deserializeAgain", last.self, serialized, None,
                        IF IsRaise(result) THEN result.v ELSE None, result)
    /\ UNCHANGED <<stackVars, values, definition_container>>
    /\ emitted' = <<>>
    /\ UNCHANGED <<type_definitions, providerVars, toolVars>>

\* documents of one setting: the label one of two, the default value one of
\* two or absent, the description, the unit and a child present or not
AgainDocuments ==
    { JDict(<< <<"label", JStr(label)>>, <<"type", JStr("int")>> >>
            \o Field("description", hasDescription, JStr("D"))
            \o Field("unit", hasUnit, JStr("mm"))
            \o Field("default_value", default # JNone, default)
            \o Field("children", hasChild,
                     JDict(<< <<"c", Setting("C", "int", <<>>)>> >>))) :
        label \in {"S", "T"}, hasDescription \in BOOLEAN, hasUnit \in BOOLEAN,
        default \in {JNone, JInt("1"), JInt("2")}, hasChild \in BOOLEAN }

NextAgain ==
    \/ \E serialized \in AgainDocuments : settingDeserializeCall("s", serialized)
    \/ \E serialized \in AgainDocuments : deserializeAgainCall(serialized)

SpecAgain == InitDefinition /\ [][NextAgain]_vars

\* C39: deserialize on a SettingDefinition that was deserialized before leaves
\* it as deserialize of the new document leaves a new definition: the
\* children and property values of the new document alone, and a required
\* property the new document lacks reported as missing.
C39_AgainAsNew ==
    last.op = "deserializeAgain" =>
        LET new == settingDeserialize(last.self, last.arg)
        IN  IF IsRaise(new) THEN last.err = new.v
            ELSE last.err = None /\ last.ret = new

-----------------------------------------------------------------------------
(***************************************************************************)
(* CameraTool: the event handler, setOrigin and the three operations that  *)
(* take the scene lock.  The tool is translated from its source.  The      *)
(* scene, its camera and the vector arithmetic are not part of the classes *)
(* above: the lock is a count of acquisitions, the camera is enabled,      *)
(* disabled or absent, positions are not represented, and the value handed *)
(* to math.acos is an input of the rotation that lies within [-1, 1] or,   *)
(* by rounding, beyond it.  A call of the tool is a sequence of steps, one *)
(* for each reading of the active camera, each acquireLock and each        *)
(* releaseLock, between which another component may change the camera.     *)
(***************************************************************************)
MaxHeld == 2        \* acquisitions without release after which no further call is made

\* scene.acquireLock()
acquireLock(scene_) == [scene_ EXCEPT !.lock = @ + 1]
\* scene.releaseLock()
releaseLock(scene_) == [scene_ EXCEPT !.lock = @ - 1]

\* camera = scene.getActiveCamera(); not camera or not camera.isEnabled()
noCamera(scene_) == scene_.camera # "enabled"

\* CameraTool.checkModifierKeys(event)
checkModifierKeys(self, event, modifiers) ==
    [self EXCEPT
        !.shift_is_active = PyBool(modifiers = "ShiftModifier"),
        !.ctrl_is_active = PyBool(modifiers = "ControlModifier"),
        !.space_is_active =
            IF event.type = "KeyPressEvent" /\ event.key = "SpaceKey" THEN "True"
            ELSE IF event.type = "KeyReleaseEvent" /\ event.key = "SpaceKey" THEN "False"
            ELSE @]

\* CameraTool.moveEvent(event): True or None
moveEvent(self, event) ==
    IF "MiddleButton" \in event.buttons THEN "True"
    ELSE IF "LeftButton" \in event.buttons /\ self.shift_is_active = "True" THEN "True"
    ELSE IF "RightButton" \in event.buttons /\ self.shift_is_active = "True" THEN "True"
    ELSE None

\* CameraTool.rotateEvent(event): True or None
rotateEvent(self, event) ==
    IF "RightButton" \in event.buttons THEN "True"
    ELSE IF "LeftButton" \in event.buttons /\ self.space_is_active = "True" THEN "True"
    ELSE None

\* CameraTool.initiateZoom(event) up to its call of _zoomCamera, or to its
\* end when it makes none: the fields of the tool at that point and whether
\* it calls _zoomCamera.  The zoom by the mouse assigns _start_y before the
\* call and resets it only after the call has returned.
initiateZoom(self, event) ==
    IF event.type = "MousePressEvent" THEN [tool |-> self, zoom |-> FALSE]
    ELSE IF event.type = "MouseMoveEvent" /\ self.space_is_active = "True"
    THEN LET start_y == IF self.start_y = <<>> THEN <<event.y>> ELSE self.start_y
         IN  [tool |-> [self EXCEPT !.start_y = start_y],
              zoom |-> start_y[1] - event.y # 0]
    ELSE IF event.type = "MouseWheelEvent" THEN [tool |-> self, zoom |-> TRUE]
    ELSE IF event.type = "KeyPressEvent"
            /\ event.key \in {"MinusKey", "UnderscoreKey", "PlusKey", "EqualKey"}
    THEN [tool |-> self, zoom |-> TRUE]
    ELSE [tool |-> self, zoom |-> FALSE]

\* the rotation by the arrow keys, without the control key: whether event
\* calls _rotateCamera for the key
rotateByKey(self, event) ==
    /\ event.type = "KeyPressEvent"
    /\ self.ctrl_is_active # "True"
    /\ event.key \in {"UpKey", "DownKey", "RightKey", "LeftKey"}

\* the press, move and release of the mouse in event: the fields of the tool,
\* the method it calls (None when it calls none) and the value it returns
\* when it calls none
mouseEvent(self, event) ==
    IF event.type = "MousePressEvent"
    THEN IF moveEvent(self, event) = "True"
         THEN [tool |-> [self EXCEPT !.move = TRUE, !.start_drag = <<event.x, event.y>>],
               call |-> None, ret |-> "True"]
         ELSE IF rotateEvent(self, event) = "True"
         THEN [tool |-> [self EXCEPT !.rotate = TRUE, !.start_drag = <<event.x, event.y>>],
               call |-> None, ret |-> "True"]
         ELSE [tool |-> self, call |-> None, ret |-> "False"]
    ELSE IF event.type = "MouseMoveEvent"
    THEN IF (self.rotate \/ self.move) /\ <<event.x, event.y>> # self.start_drag
         THEN [tool |-> self,
               call |-> IF self.rotate THEN "_rotateCamera" ELSE "_moveCamera",
               ret |-> None]
         ELSE [tool |-> self, call |-> None, ret |-> "False"]
    ELSE IF event.type = "MouseReleaseEvent"
    THEN LET released == IF self.rotate \/ self.move
                         THEN [self EXCEPT !.rotate = FALSE, !.move = FALSE,
                                           !.start_drag = <<>>]
                         ELSE self
         IN  [tool |-> [released EXCEPT !.dragged = FALSE], call |-> None,
              ret |-> PyBool(self.dragged)]
    ELSE [tool |-> self, call |-> None, ret |-> "False"]

\* event after initiateZoom: the rotation by key, else the mouse part
afterZoom(self, event) ==
    IF rotateByKey(self, event)
    THEN [tool |-> self, call |-> "_rotateCamera", ret |-> None]
    ELSE mouseEvent(self, event)

\* the call under way returns to its caller
returnsToCaller(op, arg, err, ret) ==
    /\ pending' = NoPending
    /\ last' = Call(op, "tool", arg, None, err, ret)

\* the method called by event or setOrigin returns: event goes on after
\* _zoomCamera, sets _dragged and returns True after the rotation or the move
\* by the mouse, and returns False after the rotation by key
methodReturns ==
    IF pending.op = "setOrigin"
    THEN /\ UNCHANGED tool
         /\ returnsToCaller("setOrigin", pending.arg, None, None)
    ELSE IF pending.call = "_zoomCamera"
    THEN /\ UNCHANGED <<tool, last>>
         /\ pending' = [pending EXCEPT !.pc = "afterZoom", !.call = None]
    ELSE IF pending.event.type = "MouseMoveEvent"
    THEN /\ tool' = [tool EXCEPT !.dragged = TRUE]
         /\ returnsToCaller("event", pending.arg, None, "True")
    ELSE /\ UNCHANGED tool
         /\ returnsToCaller("event", pending.arg, None, "False")

cameraFrame ==
    /\ UNCHANGED <<stackVars, values, definition_container, type_definitions, providerVars>>
    /\ emitted' = <<>>

\* event from the point after initiateZoom to its return or to the method it
\* calls
continueEvent(self, event_, arg, dot) ==
    LET rest == afterZoom(self, event_)
    IN  /\ tool' = rest.tool
        /\ IF rest.call = None
           THEN returnsToCaller("event", arg, None, rest.ret)
           ELSE /\ pending' = [pc |-> "getActiveCamera", op |-> "event", call |-> rest.call,
                               event |-> event_, arg |-> arg, dot |-> dot]
                /\ UNCHANGED last

\* CameraTool.event(event) up to the first method that works on the scene,
\* with the keyboard modifiers of the application and the value math.acos is
\* called with if the camera is rotated
eventCall(event_, modifiers, dot) ==
    /\ pending.pc = "idle"
    /\ scene.lock < MaxHeld
    /\ LET zoomed == initiateZoom(checkModifierKeys(tool, event_, modifiers), event_)
           arg == <<event_.type, modifiers, dot>>
       IN  IF zoomed.zoom
           THEN /\ tool' = zoomed.tool
                /\ pending' = [pc |-> "getActiveCamera", op |-> "event",
                               call |-> "_zoomCamera", event |-> event_, arg |-> arg,
                               dot |-> dot]
                /\ UNCHANGED last
           ELSE continueEvent(zoomed.tool, event_, arg, dot)
    /\ UNCHANGED scene
    /\ cameraFrame

\* _zoomCamera returned: initiateZoom ends, with self._start_y = None when
\* the zoom was made by the mouse, and event goes on after it
afterZoomStep ==
    /\ pending.pc = "afterZoom"
    /\ LET zoomed == IF pending.event.type = "MouseMoveEvent"
                     THEN [tool EXCEPT !.start_y = <<>>]
                     ELSE tool
       IN  continueEvent(zoomed, pending.event, pending.arg, pending.dot)
    /\ UNCHANGED scene
    /\ cameraFrame

\* CameraTool.setOrigin(origin) up to its call of _rotateCamera(0.0, 0.0):
\* the active camera is translated, AttributeError when there is none
setOriginCall(dot) ==
    /\ pending.pc = "idle"
    /\ scene.lock < MaxHeld
    /\ IF scene.camera = None
       THEN returnsToCaller("setOrigin", <<"setOrigin", None, dot>>, "AttributeError", None)
       ELSE /\ pending' = [pc |-> "getActiveCamera", op |-> "setOrigin",
                           call |-> "_rotateCamera", event |-> NoPending.event,
                           arg |-> <<"setOrigin", None, dot>>, dot |-> dot]
            /\ UNCHANGED last
    /\ UNCHANGED <<tool, scene>>
    /\ cameraFrame

\* the first lines of _moveCamera, _zoomCamera and _rotateCamera: the method
\* returns when there is no enabled active camera
getActiveCameraStep ==
    /\ pending.pc = "getActiveCamera"
    /\ IF noCamera(scene)
       THEN methodReturns
       ELSE /\ pending' = [pending EXCEPT !.pc = "acquireLock"]
            /\ UNCHANGED <<tool, last>>
    /\ UNCHANGED scene
    /\ cameraFrame

\* self._scene.acquireLock() of the three methods
acquireLockStep ==
    /\ pending.pc = "acquireLock"
    /\ scene' = acquireLock(scene)
    /\ pending' = [pending EXCEPT !.pc = "releaseLock"]
    /\ UNCHANGED <<tool, last>>
    /\ cameraFrame

\* the three methods from the acquireLock on: _moveCamera and _zoomCamera
\* release the lock at their end; _rotateCamera returns from the except
\* clause when math.acos raises ValueError, and releases the lock at its end
\* when it does not
releaseLockStep ==
    /\ pending.pc = "releaseLock"
    /\ scene' = IF pending.call = "_rotateCamera" /\ pending.dot = "beyond"
                THEN scene
                ELSE releaseLock(scene)
    /\ methodReturns
    /\ cameraFrame

\* another component changes or disables the active camera of the scene
setActiveCamera(camera) ==
    /\ scene' = [scene EXCEPT !.camera = camera]
    /\ UNCHANGED <<tool, pending, last>>
    /\ cameraFrame

Event(type, buttons, key, x, y) ==
    [type |-> type, buttons |-> buttons, key |-> key, x |-> x, y |-> y,
     deltaX |-> 1, deltaY |-> 1, vertical |-> 120]

Events ==
    { Event("MousePressEvent", {button}, None, 0, 0) :
        button \in {"LeftButton", "RightButton", "MiddleButton"} }
    \cup { Event("MouseMoveEvent", {}, None, 0, y) : y \in {0, 1} }
    \cup { Event("MouseReleaseEvent", {}, None, 0, 0),
           Event("MouseWheelEvent", {}, None, 0, 0) }
    \cup { Event("KeyPressEvent", {}, key, 0, 0) :
            key \in {"SpaceKey", "MinusKey", "UpKey"} }
    \cup { Event("KeyReleaseEvent", {}, "SpaceKey", 0, 0) }

Modifiers == {"NoModifier", "ShiftModifier", "ControlModifier"}
Dots == {"within", "beyond"}

NextCamera ==
    \/ \E event_ \in Events, modifiers \in Modifiers, dot \in Dots :
        eventCall(event_, modifiers, dot)
    \/ afterZoomStep
    \/ \E dot \in Dots : setOriginCall(dot)
    \/ getActiveCameraStep
    \/ acquireLockStep
    \/ releaseLockStep
    \/ \E camera \in {"enabled", "disabled", None} : setActiveCamera(camera)

SpecCamera == InitDefinition /\ [][NextCamera]_vars

\* C40: _moveCamera, _zoomCamera and _rotateCamera release the scene lock
\* before they return on every path, the one where the computation of the
\* rotation angle fails included: after any sequence of handled events, when
\* no call of the tool is under way, the tool does not hold the scene lock.
C40_LockNotHeld == pending.pc = "idle" => scene.lock = 0

====
